---- MODULE Spec2Model ----
(***************************************************************************)
(* A model of the SWIFFT crates of libswifft-rs: the field Z257            *)
(* (swifft-rs/src/z257.rs), the ring Z257[a]/(a^64 + 1)                    *)
(* (swifft-rs/src/polynomial.rs), the transform (swifft-rs/src/fft.rs)     *)
(* and the compression function (swifft-rs/src/hash.rs).                   *)
(*                                                                         *)
(* The library is a set of functions over values.  Each specification      *)
(* below holds the value under test in variables, draws the operands of    *)
(* the calls from bounded sets, and has one action per function that       *)
(* applies the function as its source computes it and records the call.    *)
(***************************************************************************)
EXTENDS Integers, Sequences, FiniteSets, TLC

VARIABLES
  under_test,  \* the type of the value the behaviour is about
  z,           \* the stored u16 of the Z257 under test (self)
  b,           \* the stored u16 of the Z257 passed as rhs
  fcall,       \* the last call on the Z257 under test
  p,           \* the coefficients of the Polynomial under test (self)
  q,           \* the coefficients of the Polynomial passed as rhs
  zc,          \* the stored u16 of the Z257 passed as scalar or point
  pcall,       \* the last call on the Polynomial under test
  key,         \* which table crate::multiplier holds
  input_block, \* the bytes the input is parsed from, if it is
  input,       \* the SwifftInput under test
  hcall,       \* the last call of a hash function on the input
  par,         \* the locals of a swifft_hash call that runs task by task
  inputs,      \* the input blocks handed to libswifft-sys
  sign_inputs, \* the sign blocks paired with them
  outputs,     \* the caller's output buffer
  scall,       \* the last call of a libswifft-sys function
  ref_p,       \* the coefficients of the reference Polynomial under test (self)
  ref_q,       \* the coefficients of the reference Polynomial passed as rhs
  ref_point,   \* the u16 passed as point or scalar
  ref_input,   \* the polynomials passed as hash input or as the items to sum
  ref_call,    \* the last call on the reference Polynomial under test
  ref_frames,  \* the stack frames of the call in progress
  fft_a,       \* the slice recursive_butterfly_arithmetic works on
  fft_done,    \* the recursive calls that have returned
  fft_call     \* the call of recursive_butterfly_arithmetic under test

fieldVars == <<z, b, fcall>>
polyVars == <<p, q, zc, pcall>>
hashVars == <<key, input_block, input, hcall, par>>
sysVars == <<inputs, sign_inputs, outputs, scall>>
refVars == <<ref_p, ref_q, ref_point, ref_input, ref_call, ref_frames>>
fftVars == <<fft_a, fft_done, fft_call>>
vars == <<under_test, z, b, fcall, p, q, zc, pcall, key, input_block, input, hcall, par,
          inputs, sign_inputs, outputs, scall,
          ref_p, ref_q, ref_point, ref_input, ref_call, ref_frames,
          fft_a, fft_done, fft_call>>

(***************************************************************************)
(* Loops.  ForRange(body, s, lo, hi) is the state after                    *)
(*     for i in lo..hi { s = body(s, i) }                                  *)
(* run in ascending order of i.  The range is split in two and the first   *)
(* half is evaluated before the second starts, which keeps the depth of    *)
(* the evaluation logarithmic in the number of iterations.                 *)
(***************************************************************************)
RECURSIVE ForRange(_, _, _, _)
ForRange(body(_, _), s, lo, hi) ==
  IF hi <= lo THEN s
  ELSE IF hi = lo + 1 THEN body(s, lo)
  ELSE LET mid == (lo + hi) \div 2
           first == ForRange(body, s, lo, mid)
       IN  IF first = first THEN ForRange(body, first, mid, hi) ELSE s

\* The array with the elements of f: f evaluated once at every index.
Array(f) == f @@ <<>>

(***************************************************************************)
(* Z257: swifft-rs/src/z257.rs.  A Z257 is its stored u16.                 *)
(***************************************************************************)
P == 257

\* The operands the field calls are drawn from: the MaxSmall + 1 smallest and
\* the MaxSmall + 1 largest elements of the field.
MaxSmall == 4

Field == 0..(P - 1)

\* The outcome of a call: a value, a panic, or None.
Ok(v) == [kind |-> "ok", val |-> v]
Panic == [kind |-> "panic", val |-> 0]
None == [kind |-> "none", val |-> 0]

Z257_new(value) == value % P

Z257_from_u64(value) == value % P

\* `Self::P as u8` keeps the low 8 bits of 257
Z257_from_u8(value) == value % (P % 256)

Z257_from_bool(value) == IF value THEN 1 ELSE 0

Z257_cn_is_zero(self) == self = 0

Z257_cn_neg_unreduced(self) == P - self
Z257_cn_neg(self) == IF Z257_cn_is_zero(self) THEN 0 ELSE P - self

Z257_cn_add_unreduced(self, rhs) == self + rhs
Z257_cn_add(self, rhs) ==
  LET result == self + rhs
  IN  IF result >= P THEN result - P ELSE result

Z257_cn_sub(self, rhs) ==
  IF self >= rhs THEN self - rhs ELSE self + P - rhs

Z257_cn_mul_wrapping(self, rhs) == (self * rhs) % 256
Z257_cn_mul(self, rhs) == (self * rhs) % P

compute_pow_from_base ==
  Array([n \in Field |->
    ForRange(LAMBDA pow, i : [pow EXCEPT ![i] = (pow[i - 1] * n) % P],
             Array([i \in Field |-> IF i = 0 THEN n ELSE 0]), 1, P)])
\* compute_pow: pow[n][0] = 1, pow[n][i] = pow[n][i-1] * n % P
compute_pow ==
  Array([n \in Field |->
    ForRange(LAMBDA pow, i : [pow EXCEPT ![i] = (pow[i - 1] * n) % P],
             Array([i \in Field |-> IF i = 0 THEN 1 ELSE 0]), 1, P)])

POW == compute_pow

compute_invert_short == Array([n \in Field |-> POW[n][P - 3]])
compute_invert == Array([n \in Field |-> POW[n][P - 2]])

INV == compute_invert

Z257_cn_div(self, rhs) ==
  IF Z257_cn_is_zero(rhs) THEN Panic ELSE Ok((self * INV[rhs]) % P)

Z257_cn_checked_div(self, rhs) ==
  IF Z257_cn_is_zero(rhs) THEN None ELSE Ok((self * INV[rhs]) % P)

Z257_cn_pow_swapped(self, rhs) == POW[rhs][self]
Z257_cn_pow(self, rhs) == POW[self][rhs]

Z257_cn_inv(self) ==
  IF Z257_cn_is_zero(self) THEN Panic ELSE Ok(INV[self])

Z257_cn_inv_checked_unguarded(self) == Ok(INV[self])
Z257_cn_inv_checked(self) ==
  IF Z257_cn_is_zero(self) THEN None ELSE Ok(INV[self])

\* The in-place forms: the outcome and the new stored value of self.
Z257_neg_assign(self) == IF Z257_cn_is_zero(self) THEN 0 ELSE P - self

Z257_checked_div_assign(self, rhs) ==
  IF Z257_cn_is_zero(rhs) THEN None ELSE Ok((self * INV[rhs]) % P)

Z257_pow_assign(self, rhs) == POW[self][rhs]

Z257_inv_assign(self) ==
  IF Z257_cn_is_zero(self) THEN Panic ELSE Ok(INV[self])

Z257_inv_assign_checked(self) ==
  IF Z257_cn_is_zero(self) THEN None ELSE Ok(INV[self])

\* Rem: `self.0 % rhs.0`; the u16 remainder panics on a zero divisor
Z257_rem(self, rhs) == IF rhs = 0 THEN Panic ELSE Ok(self % rhs)

Z257_add_assign(self, rhs) ==
  LET sum == self + rhs
  IN  IF sum >= P THEN sum - P ELSE sum

Z257_sub_assign_distance(self, rhs) ==
  IF self >= rhs THEN self - rhs ELSE rhs - self
Z257_sub_assign(self, rhs) ==
  IF self >= rhs THEN self - rhs ELSE self + (P - rhs)

Z257_mul_assign(self, rhs) == (self * rhs) % P

Z257_div_assign(self, rhs) ==
  IF Z257_cn_is_zero(rhs) THEN Panic ELSE Ok((self * INV[rhs]) % P)

Z257_square(self) == POW[self][2]

Z257_double(self) == Z257_cn_mul(self, 2)

\* Field::invert: a CtOption that is none exactly when cn_inv_checked is None
Z257_invert(self) == Z257_cn_inv_checked(self)

\* from_repr: the u16 of two little-endian bytes, none when not below P
Z257_from_repr(lo, hi) ==
  LET value == lo + 256 * hi
  IN  IF value < P THEN Ok(value) ELSE None

Z257_conditional_select(x, y, choice) == IF choice = 0 THEN x ELSE y

\* impl Div<T: Into<Self>> for Z257
Z257_div(self, rhs) == Z257_cn_div(self, rhs)

\* impl From<u16> for Z257
Z257_from_u16(value) == Z257_new(value)

\* impl Pow<T: Into<Self>> for Z257, rhs already converted by rhs.into()
Z257_pow(self, rhs) == Z257_cn_pow(self, rhs)

LEAST_PRIMITIVE_ROOT == 3

OMEGA_ORDER_128 == Z257_cn_pow(LEAST_PRIMITIVE_ROOT, 2)

OMEGA_ORDER_64 == Z257_cn_pow(OMEGA_ORDER_128, 2)

OMEGA_ORDER_32 == Z257_cn_pow(OMEGA_ORDER_64, 2)

OMEGA_ORDER_16 == Z257_cn_pow(OMEGA_ORDER_32, 2)

OMEGA_ORDER_8 == Z257_cn_pow(OMEGA_ORDER_16, 2)

OMEGA_ORDER_4 == Z257_cn_pow(OMEGA_ORDER_8, 2)

OMEGA_ORDER_2 == Z257_cn_pow(OMEGA_ORDER_4, 2)

(***************************************************************************)
(* best_fft: swifft-rs/src/fft.rs.  A slice of Z257 is a function on       *)
(* 0..n-1.                                                                 *)
(***************************************************************************)
bitreverse_identity(n, l) == n
\* r = (r << 1) | (n & 1); n >>= 1, l times
bitreverse(n, l) ==
  ForRange(LAMBDA s, k : [n |-> s.n \div 2, r |-> 2 * s.r + (s.n % 2)],
           [n |-> n, r |-> 0], 0, l).r

swap(a, i, j) == [a EXCEPT ![i] = a[j], ![j] = a[i]]

\* the bit-reversal permutation of best_fft
bitreverse_permute(a, n, log_n) ==
  ForRange(LAMBDA s, k :
             LET rk == bitreverse(k, log_n)
             IN  IF k < rk THEN swap(s, rk, k) ELSE s,
           a, 0, n)

\* twiddles[k] = omega^k, 0 <= k < n/2, by repeated `*w *= &omega`
precompute_twiddles(omega, n) ==
  ForRange(LAMBDA tw, k : [tw EXCEPT ![k] = Z257_mul_assign(tw[k - 1], omega)],
           Array([k \in 0..(n \div 2 - 1) |-> 1]), 1, n \div 2)

butterfly_swapped(a, ia, ib, t) ==
  [a EXCEPT ![ia] = Z257_sub_assign(a[ia], t),
            ![ib] = Z257_add_assign(a[ia], t)]
\* *b = *a; *a += &t; *b -= &t
butterfly(a, ia, ib, t) ==
  [a EXCEPT ![ia] = Z257_add_assign(a[ia], t),
            ![ib] = Z257_sub_assign(a[ia], t)]

\* one chunk of a stage: the pair with twiddle one, then the zipped halves
butterfly_chunk(a, base, chunk, twiddle_chunk, twiddles) ==
  ForRange(LAMBDA s, j :
             LET ia == base + j
                 ib == base + chunk \div 2 + j
                 t == IF j = 0 THEN s[ib]
                      ELSE Z257_mul_assign(s[ib], twiddles[j * twiddle_chunk])
             IN  butterfly(s, ia, ib, t),
           a, 0, chunk \div 2)

\* a.chunks_mut(chunk).for_each(..)
butterfly_stage(a, n, chunk, twiddle_chunk, twiddles) ==
  ForRange(LAMBDA s, c : butterfly_chunk(s, c * chunk, chunk, twiddle_chunk, twiddles),
           a, 0, n \div chunk)

best_fft(a, omega, log_n) ==
  LET n == 2 ^ log_n
      twiddles == precompute_twiddles(omega, n)
  IN  ForRange(LAMBDA s, k :
                 [a |-> butterfly_stage(s.a, n, s.chunk, s.twiddle_chunk, twiddles),
                  chunk |-> s.chunk * 2,
                  twiddle_chunk |-> s.twiddle_chunk \div 2],
               [a |-> bitreverse_permute(a, n, log_n), chunk |-> 2,
                twiddle_chunk |-> n \div 2],
               0, log_n).a

(***************************************************************************)
(* Polynomial: swifft-rs/src/polynomial.rs.  A Polynomial is its array of  *)
(* N coefficients, a function on 0..N-1.                                   *)
(***************************************************************************)
N == 64

RECURSIVE ilog2(_)
ilog2(n) == IF n < 2 THEN 0 ELSE 1 + ilog2(n \div 2)

LOG2_N == ilog2(N)

Index == 0..(N - 1)

Polynomial_ZERO == Array([i \in Index |-> 0])

Polynomial_from_coefficients(coefficients) ==
  Array([i \in Index |-> Z257_new(coefficients[i])])

Polynomial_ONE ==
  Polynomial_from_coefficients([i \in Index |-> IF i = 0 THEN 1 ELSE 0])

Polynomial_ALPHA ==
  Polynomial_from_coefficients([i \in Index |-> IF i = 1 THEN 1 ELSE 0])

\* from_point_powers starting at the point itself: point, point^2, ..., point^64
Polynomial_from_point_powers_from_point(point) ==
  ForRange(LAMBDA pp, i : [pp EXCEPT ![i] = Z257_cn_mul(pp[i - 1], point)],
           [Polynomial_ZERO EXCEPT ![0] = point], 1, N)
Polynomial_from_point_powers(point) ==
  ForRange(LAMBDA pp, i : [pp EXCEPT ![i] = Z257_cn_mul(pp[i - 1], point)],
           [Polynomial_ZERO EXCEPT ![0] = 1], 1, N)

Polynomial_cn_neg(self) == Array([i \in Index |-> Z257_cn_neg(self[i])])

Polynomial_cn_add(self, rhs) == Array([i \in Index |-> Z257_cn_add(self[i], rhs[i])])

Polynomial_cn_sub(self, rhs) == Array([i \in Index |-> Z257_cn_sub(self[i], rhs[i])])

Polynomial_scalar_mul(self, scalar) ==
  Array([i \in Index |-> Z257_cn_mul(self[i], scalar)])

Polynomial_dot_product_short(self, rhs) ==
  ForRange(LAMBDA dot, i : Z257_cn_add(dot, Z257_cn_mul(self[i], rhs[i])), 0, 0, N - 1)
Polynomial_dot_product(self, rhs) ==
  ForRange(LAMBDA dot, i : Z257_cn_add(dot, Z257_cn_mul(self[i], rhs[i])), 0, 0, N)

Polynomial_hadamard_product(self, rhs) ==
  Array([i \in Index |-> Z257_cn_mul(self[i], rhs[i])])

Polynomial_increment_power_cyclic(self) ==
  Array([i \in Index |-> IF i = 0 THEN self[N - 1] ELSE self[i - 1]])
Polynomial_increment_power(self) ==
  Array([i \in Index |-> IF i = 0 THEN Z257_cn_neg(self[N - 1]) ELSE self[i - 1]])

\* increment_power_assign: the rotated coefficient is read first, then the loop
\* runs upwards over the same array it writes, then coefficient 0 is set.
Polynomial_increment_power_assign(self) ==
  LET rotated_coefficient == Z257_cn_neg(self[N - 1])
      shifted == ForRange(LAMBDA s, i : [s EXCEPT ![i] = s[i - 1]], self, 1, N)
  IN  [shifted EXCEPT ![0] = rotated_coefficient]

Polynomial_evaluate_point(self, point) ==
  Polynomial_dot_product(self, Polynomial_from_point_powers(point))

\* column i of the matrix is the polynomial toeplitz_matrix[i]
Polynomial_toeplitz_matrix(self) ==
  ForRange(LAMBDA m, i : [m EXCEPT ![i] = Polynomial_increment_power(m[i - 1])],
           [Array([i \in Index |-> Polynomial_ZERO]) EXCEPT ![0] = self], 1, N)

\* the check that guards every product of matrix_mul_col_vec
value_out_of_range(lhs, rhs) ==
  \E row \in Index, column \in Index : lhs[column][row] > 256 \/ rhs[column] > 256

Polynomial_matrix_mul_col_vec(lhs, rhs) ==
  IF value_out_of_range(lhs, rhs) THEN Panic
  ELSE Ok(Array([row \in Index |->
         ForRange(LAMBDA product, column :
                    Z257_cn_add(product, Z257_cn_mul(lhs[column][row], rhs[column])),
                  0, 0, N)]))

Polynomial_naive_mul(self, rhs) ==
  Polynomial_matrix_mul_col_vec(Polynomial_toeplitz_matrix(self), rhs)

Polynomial_neg_assign(self) == Array([i \in Index |-> Z257_cn_neg(self[i])])

Polynomial_scalar_mul_assign(self, scalar) ==
  Array([i \in Index |-> Z257_mul_assign(self[i], scalar)])

Polynomial_hadamard_product_assign(self, rhs) ==
  Array([i \in Index |-> Z257_mul_assign(self[i], rhs[i])])

OMEGA_ORDER_64_INV == Z257_cn_inv(OMEGA_ORDER_64).val

OMEGA_ORDER_128_POWERS == Polynomial_from_point_powers(OMEGA_ORDER_128)

FOURIER_NORMALISATION_COEFFICIENTS ==
  Polynomial_scalar_mul(Polynomial_from_point_powers(Z257_cn_inv(OMEGA_ORDER_128).val),
                        Z257_cn_inv(Z257_new(N)).val)

\* the forward transform without the twist by the powers of omega_128
Polynomial_fourier_coefficients_untwisted(self) ==
  best_fft(self, OMEGA_ORDER_64, LOG2_N)
Polynomial_fourier_coefficients_assign(self) ==
  best_fft(Polynomial_hadamard_product_assign(self, OMEGA_ORDER_128_POWERS),
           OMEGA_ORDER_64, LOG2_N)

\* the forward transform run with the inverse root of unity
Polynomial_fourier_coefficients_inverse_root(self) ==
  best_fft(Polynomial_hadamard_product_assign(self, OMEGA_ORDER_128_POWERS),
           OMEGA_ORDER_64_INV, LOG2_N)
Polynomial_fourier_coefficients(self) == Polynomial_fourier_coefficients_assign(self)

Polynomial_interpolate_unnormalised(self) ==
  best_fft(self, OMEGA_ORDER_64_INV, LOG2_N)
Polynomial_interpolate_fourier_coefficients_assign(self) ==
  Polynomial_hadamard_product_assign(best_fft(self, OMEGA_ORDER_64_INV, LOG2_N),
                                     FOURIER_NORMALISATION_COEFFICIENTS)

Polynomial_interpolate_fourier_coefficients(self) ==
  Polynomial_interpolate_fourier_coefficients_assign(self)

Polynomial_fft_mul_assign(self, rhs) ==
  LET rhs_coefficients == Polynomial_fourier_coefficients(rhs)
  IN  Polynomial_interpolate_fourier_coefficients_assign(
        Polynomial_hadamard_product_assign(
          Polynomial_fourier_coefficients_assign(self), rhs_coefficients))

Polynomial_fft_mul(self, rhs) == Polynomial_fft_mul_assign(self, rhs)

\* impl Neg / Add / Mul<T: Into<Self>> for Polynomial
Polynomial_neg(self) == Polynomial_cn_neg(self)

Polynomial_add(self, rhs) == Polynomial_cn_add(self, rhs)

Polynomial_mul(self, rhs) == Polynomial_fft_mul(self, rhs)

\* impl AddAssign for Polynomial: self.0[i] += rhs[i]
Polynomial_add_assign(self, rhs) ==
  Array([i \in Index |-> Z257_add_assign(self[i], rhs[i])])

Polynomial_new(coefficients) == coefficients

(***************************************************************************)
(* The hash functions: swifft-rs/src/hash.rs.  A SwifftInput is an array   *)
(* of M polynomials, a function on 0..M-1.                                 *)
(***************************************************************************)
M == 16

INPUT_SIZE == N * M

INPUT_BLOCK_SIZE == INPUT_SIZE \div 8

\* The number of tables the multiplier module is drawn from.
MaxKey == 2

\* crate::multiplier is not among the sources: the table of 16 fixed public
\* multiplier polynomials, 64 coefficients each, is one of MaxKey tables.
MultiplierTables ==
  Array([k \in 1..MaxKey |->
    Array([i \in 0..(M - 1) |->
      Array([j \in Index |-> (k * 104729 + i * i * 7919 + j * j * 31 + i * j * (k + 16)) % P])])])

compute_multiplier_polynomials(coefficients) ==
  ForRange(LAMBDA mp, i : [mp EXCEPT ![i] = Polynomial_from_coefficients(coefficients[i])],
           Array([i \in 0..(M - 1) |-> Polynomial_ZERO]), 0, M)

\* compute_multiplier_fourier_coefficients without the point-wise product with
\* the powers of omega_128: the evaluation at the powers of omega_64 alone
compute_multiplier_fourier_coefficients_untwisted(multiplier_polynomials) ==
  Array([i \in 0..(M - 1) |->
    Polynomial_new(
      Array([j \in Index |->
        Polynomial_evaluate_point(multiplier_polynomials[i],
                                  Z257_cn_pow(OMEGA_ORDER_64, Z257_new(j)))]))])

compute_multiplier_fourier_coefficients(multiplier_polynomials) ==
  LET augmented_multiplier_polynomials ==
        Array([i \in 0..(M - 1) |->
          Polynomial_hadamard_product(multiplier_polynomials[i], OMEGA_ORDER_128_POWERS)])
      fourier_coefficients ==
        Array([i \in 0..(M - 1) |->
          Array([j \in Index |->
            Polynomial_evaluate_point(augmented_multiplier_polynomials[i],
                                      Z257_cn_pow(OMEGA_ORDER_64, Z257_new(j)))])])
  IN  Array([i \in 0..(M - 1) |-> Polynomial_new(fourier_coefficients[i])])

\* the constants of hash.rs, for each of the tables
MultiplierPolynomials ==
  Array([k \in 1..MaxKey |-> compute_multiplier_polynomials(MultiplierTables[k])])

MultiplierFourierCoefficients ==
  Array([k \in 1..MaxKey |-> compute_multiplier_fourier_coefficients(MultiplierPolynomials[k])])

MULTIPLIER_POLYNOMIAL_COEFFICIENTS == MultiplierTables[key]

MULTIPLIER_POLYNOMIALS == MultiplierPolynomials[key]

MULTIPLIER_FOURIER_COEFFICIENTS == MultiplierFourierCoefficients[key]

\* parse_input_block reading the bits of a byte from the most significant
parse_input_block_msb_first(block) ==
  LET input_coefficients ==
        ForRange(LAMBDA outer, byte_index :
          ForRange(LAMBDA ic, bit_position :
                     LET input_position == byte_index * 8 + bit_position
                         input_index == input_position \div N
                         coefficient_index == input_position % N
                         bit == (block[byte_index] \div (2 ^ (7 - bit_position))) % 2 # 0
                     IN  [ic EXCEPT ![input_index][coefficient_index] = Z257_from_bool(bit)],
                   outer, 0, 8),
          Array([i \in 0..(M - 1) |-> Polynomial_ZERO]), 0, INPUT_BLOCK_SIZE)
  IN  Array([i \in 0..(M - 1) |-> Polynomial_new(input_coefficients[i])])

\* input is a function on 0..INPUT_BLOCK_SIZE-1 to bytes
parse_input_block(block) ==
  LET input_coefficients ==
        ForRange(LAMBDA outer, byte_index :
          ForRange(LAMBDA ic, bit_position :
                     LET input_position == byte_index * 8 + bit_position
                         input_index == input_position \div N
                         coefficient_index == input_position % N
                         bit == (block[byte_index] \div (2 ^ bit_position)) % 2 # 0
                     IN  [ic EXCEPT ![input_index][coefficient_index] = Z257_from_bool(bit)],
                   outer, 0, 8),
          Array([i \in 0..(M - 1) |-> Polynomial_ZERO]), 0, INPUT_BLOCK_SIZE)
  IN  Array([i \in 0..(M - 1) |-> Polynomial_new(input_coefficients[i])])

\* hash_polynomial += MULTIPLIER_POLYNOMIALS[i].naive_mul(&input[i])
swifft_hash_naive(x) ==
  ForRange(LAMBDA hash_polynomial, i :
             LET product == Polynomial_naive_mul(MULTIPLIER_POLYNOMIALS[i], x[i])
             IN  IF hash_polynomial.kind = "panic" \/ product.kind = "panic" THEN Panic
                 ELSE Ok(Polynomial_add_assign(hash_polynomial.val, product.val)),
           Ok(Polynomial_ZERO), 0, M)

\* hash_polynomial += MULTIPLIER_POLYNOMIALS[i] * input[i]
swifft_hash_fft_simple(x) ==
  ForRange(LAMBDA hash_polynomial, i :
             Polynomial_add_assign(hash_polynomial,
                                   Polynomial_mul(MULTIPLIER_POLYNOMIALS[i], x[i])),
           Polynomial_ZERO, 0, M)

\* swifft_hash with a sum that stops one product short
swifft_hash_drops_last(x) ==
  LET product_fourier_coefficients ==
        Array([i \in 0..(M - 1) |->
          Polynomial_hadamard_product_assign(
            Polynomial_fourier_coefficients_assign(x[i]),
            MULTIPLIER_FOURIER_COEFFICIENTS[i])])
      digest ==
        ForRange(LAMBDA d, i : Polynomial_add_assign(d, product_fourier_coefficients[i]),
                 Polynomial_ZERO, 0, M - 1)
  IN  Polynomial_interpolate_fourier_coefficients_assign(digest)

\* every element of the clone is transformed on its own by par_iter_mut;
\* the products are summed in index order and the sum is interpolated
swifft_hash(x) ==
  LET product_fourier_coefficients ==
        Array([i \in 0..(M - 1) |->
          Polynomial_hadamard_product_assign(
            Polynomial_fourier_coefficients_assign(x[i]),
            MULTIPLIER_FOURIER_COEFFICIENTS[i])])
      digest ==
        ForRange(LAMBDA d, i : Polynomial_add_assign(d, product_fourier_coefficients[i]),
                 Polynomial_ZERO, 0, M)
  IN  Polynomial_interpolate_fourier_coefficients_assign(digest)

(***************************************************************************)
(* The Z257 under test.  Init is the state after one of its constructors;  *)
(* every action is one call on it with rhs as the other operand.           *)
(***************************************************************************)
Small == (0..MaxSmall) \cup ((P - 1 - MaxSmall)..(P - 1))

U16Inputs == Small \cup {P, P + 1, 2 * P - 1, 2 * P, 65535}

U64Inputs == U16Inputs \cup {65536, 65537 * P, 2147483647}

U8Inputs == 0..255

Rhs == {Z257_new(v) : v \in Small \cup {9, 81, 128}}

Call(op, self, rhs, r) ==
  [op |-> op, self |-> self, rhs |-> rhs, kind |-> r.kind, ret |-> r.val]

NoCall == Call("none", 0, 0, None)

FieldIdle == z = 0 /\ b = 0 /\ fcall = NoCall

PolyIdle == p = <<>> /\ q = <<>> /\ zc = 0 /\ pcall = NoCall

NoPar == <<>>

SysIdle == inputs = <<>> /\ sign_inputs = <<>> /\ outputs = <<>> /\ scall = NoCall

RefIdle ==
  /\ ref_p = <<>> /\ ref_q = <<>> /\ ref_point = 0 /\ ref_input = <<>>
  /\ ref_call = NoCall /\ ref_frames = 0

FftIdle == fft_a = <<>> /\ fft_done = {} /\ fft_call = NoCall

HashIdle ==
  key = 0 /\ input_block = <<>> /\ input = <<>> /\ hcall = NoCall /\ par = NoPar

Constructions ==
  {Call("new", v, 0, Ok(Z257_new(v))) : v \in U16Inputs}
    \cup {Call("from_u64", v, 0, Ok(Z257_from_u64(v))) : v \in U64Inputs}
    \cup {Call("from_u8", v, 0, Ok(Z257_from_u8(v))) : v \in U8Inputs}
    \cup {Call("from_bool", Z257_from_bool(v), 0, Ok(Z257_from_bool(v))) : v \in BOOLEAN}
    \cup {Call("random", v, 0, Ok(v % P)) : v \in Field \cup {65535}}
    \cup {Call("from_repr", lo + 256 * hi, 0, Z257_from_repr(lo, hi)) :
            lo \in {0, 1, 255}, hi \in {0, 1, 255}}

FieldInit ==
  /\ under_test = "Z257"
  /\ b \in Rhs
  /\ fcall \in Constructions
  /\ z = fcall.ret
  /\ PolyIdle
  /\ RefIdle
  /\ FftIdle
  /\ HashIdle
  /\ SysIdle

\* A call that returns a value and leaves self as it is.
Pure(op, r) ==
  /\ under_test = "Z257"
  /\ fcall' = Call(op, z, b, r)
  /\ UNCHANGED <<under_test, z, b, polyVars, hashVars, sysVars, refVars, fftVars>>

\* A call on &mut self: self takes the new value unless the call fails.
InPlace(op, r) ==
  /\ under_test = "Z257"
  /\ fcall' = Call(op, z, b, [r EXCEPT !.val = 0])
  /\ z' = IF r.kind = "ok" THEN r.val ELSE z
  /\ UNCHANGED <<under_test, b, polyVars, hashVars, sysVars, refVars, fftVars>>

CnNeg == Pure("cn_neg", Ok(Z257_cn_neg(z)))
CnAdd == Pure("cn_add", Ok(Z257_cn_add(z, b)))
CnSub == Pure("cn_sub", Ok(Z257_cn_sub(z, b)))
CnMul == Pure("cn_mul", Ok(Z257_cn_mul(z, b)))
CnDiv == Pure("cn_div", Z257_cn_div(z, b))
Div == Pure("div", Z257_div(z, b))
CnCheckedDiv == Pure("cn_checked_div", Z257_cn_checked_div(z, b))
CnPow == Pure("cn_pow", Ok(Z257_cn_pow(z, b)))
CnInv == Pure("cn_inv", Z257_cn_inv(z))
CnInvChecked == Pure("cn_inv_checked", Z257_cn_inv_checked(z))
Rem == Pure("rem", Z257_rem(z, b))
Square == Pure("square", Ok(Z257_square(z)))
Double == Pure("double", Ok(Z257_double(z)))
Invert == Pure("invert", Z257_invert(z))
ConditionalSelect ==
  \E choice \in {0, 1} :
    Pure("conditional_select", Ok(Z257_conditional_select(z, b, choice)))

NegAssign == InPlace("neg_assign", Ok(Z257_neg_assign(z)))
AddAssign == InPlace("add_assign", Ok(Z257_add_assign(z, b)))
SubAssign == InPlace("sub_assign", Ok(Z257_sub_assign(z, b)))
MulAssign == InPlace("mul_assign", Ok(Z257_mul_assign(z, b)))
DivAssign == InPlace("div_assign", Z257_div_assign(z, b))
CheckedDivAssign == InPlace("checked_div_assign", Z257_checked_div_assign(z, b))
PowAssign == InPlace("pow_assign", Ok(Z257_pow_assign(z, b)))
InvAssign == InPlace("inv_assign", Z257_inv_assign(z))
InvAssignChecked == InPlace("inv_assign_checked", Z257_inv_assign_checked(z))
RemAssign == InPlace("rem_assign", Z257_rem(z, b))

\* The exponents the Pow operator is called with, as u16 and as u64: the rhs
\* operand, and the rhs operand moved past 256, past P and to the top.
U16Exponents == {b, b + 256, b + P, 65535 - b}

U64Exponents == {b, b + 256, b + P, 2147483647 - b}

PowU16 ==
  \E e \in U16Exponents :
    /\ under_test = "Z257"
    /\ fcall' = Call("pow_u16", z, e, Ok(Z257_pow(z, Z257_from_u16(e))))
    /\ UNCHANGED <<under_test, z, b, polyVars, hashVars, sysVars, refVars, fftVars>>

PowU64 ==
  \E e \in U64Exponents :
    /\ under_test = "Z257"
    /\ fcall' = Call("pow_u64", z, e, Ok(Z257_pow(z, Z257_from_u64(e))))
    /\ UNCHANGED <<under_test, z, b, polyVars, hashVars, sysVars, refVars, fftVars>>

FieldNext ==
  \/ CnNeg \/ CnAdd \/ CnSub \/ CnMul \/ CnDiv \/ CnCheckedDiv \/ CnPow
  \/ CnInv \/ CnInvChecked \/ Rem \/ Square \/ Double \/ Invert
  \/ ConditionalSelect
  \/ NegAssign \/ AddAssign \/ SubAssign \/ MulAssign \/ DivAssign
  \/ CheckedDivAssign \/ PowAssign \/ InvAssign \/ InvAssignChecked
  \/ RemAssign \/ PowU16 \/ PowU64 \/ Div

SpecField == FieldInit /\ [][FieldNext]_vars

(***************************************************************************)
(* The Polynomial under test.  Init is the state after its construction    *)
(* from u16 coefficients, with a second Polynomial and a Z257 as operands; *)
(* a behaviour is one call on it.                                          *)
(***************************************************************************)
\* The number of generated coefficient arrays among the operands.
MaxSeed == 3

GeneratedCoefficients(s) ==
  [i \in Index |-> (s * 7919 + i * i * 31 + i * s * 17 + (s + i) * (s + i) * (s + i)) % 65536]

Generated ==
  {Polynomial_from_coefficients(GeneratedCoefficients(s)) : s \in 1..MaxSeed}

PolynomialInputs ==
  {Polynomial_ZERO, Polynomial_ONE, Polynomial_ALPHA,
   Polynomial_from_coefficients([i \in Index |-> P - 1]),
   Polynomial_from_coefficients([i \in Index |-> IF i = N - 1 THEN P - 1 ELSE 0])}
    \cup Generated

Scalars == {Z257_new(v) : v \in {3, P - 1}}

PolyInit ==
  /\ under_test = "Polynomial"
  /\ p \in PolynomialInputs
  /\ q \in PolynomialInputs
  /\ zc \in Scalars
  /\ pcall = NoCall
  /\ FieldIdle
  /\ RefIdle
  /\ FftIdle
  /\ HashIdle
  /\ SysIdle

\* A call that returns a value and leaves self as it is.
PurePoly(op, rhs, r) ==
  /\ under_test = "Polynomial"
  /\ pcall.op = "none"
  /\ pcall' = Call(op, p, rhs, r)
  /\ UNCHANGED <<under_test, p, q, zc, fieldVars, hashVars, sysVars, refVars, fftVars>>

\* A call on &mut self: self takes the new value.
InPlacePoly(op, rhs, new) ==
  /\ under_test = "Polynomial"
  /\ pcall.op = "none"
  /\ pcall' = Call(op, p, rhs, Ok(0))
  /\ p' = new
  /\ UNCHANGED <<under_test, q, zc, fieldVars, hashVars, sysVars, refVars, fftVars>>

PolyCnNeg == PurePoly("cn_neg", 0, Ok(Polynomial_cn_neg(p)))
PolyCnAdd == PurePoly("cn_add", q, Ok(Polynomial_cn_add(p, q)))
PolyCnSub == PurePoly("cn_sub", q, Ok(Polynomial_cn_sub(p, q)))
PolyScalarMul == PurePoly("scalar_mul", zc, Ok(Polynomial_scalar_mul(p, zc)))
PolyHadamardProduct == PurePoly("hadamard_product", q, Ok(Polynomial_hadamard_product(p, q)))
PolyIncrementPower == PurePoly("increment_power", 0, Ok(Polynomial_increment_power(p)))
PolyNaiveMul == PurePoly("naive_mul", q, Polynomial_naive_mul(p, q))
PolyFourierCoefficients ==
  PurePoly("fourier_coefficients", 0, Ok(Polynomial_fourier_coefficients(p)))
PolyInterpolateFourierCoefficients ==
  PurePoly("interpolate_fourier_coefficients", 0,
           Ok(Polynomial_interpolate_fourier_coefficients(p)))
PolyFftMul == PurePoly("fft_mul", q, Ok(Polynomial_fft_mul(p, q)))
PolyNeg == PurePoly("neg", 0, Ok(Polynomial_neg(p)))
PolyAdd == PurePoly("add", q, Ok(Polynomial_add(p, q)))
PolyMul == PurePoly("mul", q, Ok(Polynomial_mul(p, q)))

PolyFourierCoefficientsAssign ==
  InPlacePoly("fourier_coefficients_assign", 0, Polynomial_fourier_coefficients_assign(p))
PolyInterpolateFourierCoefficientsAssign ==
  InPlacePoly("interpolate_fourier_coefficients_assign", 0,
              Polynomial_interpolate_fourier_coefficients_assign(p))
PolyFftMulAssign == InPlacePoly("fft_mul_assign", q, Polynomial_fft_mul_assign(p, q))
PolyIncrementPowerAssign ==
  InPlacePoly("increment_power_assign", 0, Polynomial_increment_power_assign(p))

\* best_fft on the coefficient slice, with the forward or the inverse root
BestFft ==
  \E omega \in {OMEGA_ORDER_64, OMEGA_ORDER_64_INV} :
    InPlacePoly("best_fft", omega, best_fft(p, omega, LOG2_N))

PolyNext ==
  \/ PolyCnNeg \/ PolyCnAdd \/ PolyCnSub \/ PolyScalarMul \/ PolyHadamardProduct
  \/ PolyIncrementPower \/ PolyNaiveMul \/ PolyFourierCoefficients
  \/ PolyInterpolateFourierCoefficients \/ PolyFftMul
  \/ PolyNeg \/ PolyAdd \/ PolyMul
  \/ PolyFourierCoefficientsAssign \/ PolyInterpolateFourierCoefficientsAssign
  \/ PolyFftMulAssign \/ PolyIncrementPowerAssign \/ BestFft

SpecPoly == PolyInit /\ [][PolyNext]_vars

(***************************************************************************)
(* The SwifftInput under test.  It is built from 16 arrays of u16           *)
(* coefficients, or parsed from a block of bytes by parse_input_block; a   *)
(* behaviour then makes one call of a hash function on it.                 *)
(***************************************************************************)
\* The number of generated blocks, of generated single-bit blocks and of
\* generated coefficient inputs.
MaxInput == 2

Bytes == 0..(INPUT_BLOCK_SIZE - 1)

GeneratedBlock(s) ==
  [i \in Bytes |-> (s * 7919 + i * i * 31 + i * s * 17 + (s + i) * (s + i) * (s + i)) % 256]

\* the block whose only set bit is the bit at input position pos
SingleBitBlock(pos) ==
  [i \in Bytes |-> IF i = pos \div 8 THEN 2 ^ (pos % 8) ELSE 0]

GeneratedPosition(s) == (s * 389 + s * s * 61 + 7) % INPUT_SIZE

Blocks ==
  {[i \in Bytes |-> 0], [i \in Bytes |-> 255],
   SingleBitBlock(0), SingleBitBlock(N), SingleBitBlock(INPUT_SIZE - 1)}
    \cup {SingleBitBlock(GeneratedPosition(s)) : s \in 1..MaxInput}
    \cup {GeneratedBlock(s) : s \in 1..MaxInput}

GeneratedInput(s) ==
  Array([i \in 0..(M - 1) |-> Polynomial_from_coefficients(GeneratedCoefficients(s * M + i))])

GeneratedInputs == {GeneratedInput(s) : s \in 1..MaxInput}

NoBlock == <<>>

NoInput == <<>>

HashInit ==
  /\ under_test = "SwifftInput"
  /\ key \in 1..MaxKey
  /\ \/ input_block = NoBlock /\ input \in GeneratedInputs
     \/ input_block \in Blocks /\ input = NoInput
  /\ hcall = NoCall
  /\ par = NoPar
  /\ FieldIdle
  /\ PolyIdle
  /\ RefIdle
  /\ FftIdle
  /\ SysIdle

ParseInputBlock ==
  /\ under_test = "SwifftInput"
  /\ input = NoInput
  /\ input' = parse_input_block(input_block)
  /\ hcall' = Call("parse_input_block", 0, 0, Ok(input'))
  /\ UNCHANGED <<under_test, key, input_block, par, fieldVars, polyVars, sysVars, refVars, fftVars>>

HashCall(op, r) ==
  /\ under_test = "SwifftInput"
  /\ input # NoInput
  /\ hcall.op \in {"none", "parse_input_block"}
  /\ hcall' = Call(op, 0, 0, r)
  /\ UNCHANGED <<under_test, key, input_block, input, par, fieldVars, polyVars, sysVars, refVars, fftVars>>

SwifftHashNaive == HashCall("swifft_hash_naive", swifft_hash_naive(input))
SwifftHashFftSimple == HashCall("swifft_hash_fft_simple", Ok(swifft_hash_fft_simple(input)))
SwifftHash == HashCall("swifft_hash", Ok(swifft_hash(input)))

HashNext == ParseInputBlock \/ SwifftHashNaive \/ SwifftHashFftSimple \/ SwifftHash

SpecHash == HashInit /\ [][HashNext]_vars

(***************************************************************************)
(* One call of swifft_hash, step by step.  par_iter_mut hands the elements *)
(* of the clone to the threads of the pool in contiguous pieces; a thread  *)
(* runs the closure on the elements of its piece in turn, and the two      *)
(* calls of the closure are separate steps, so the steps of different      *)
(* threads interleave in every order.  for_each returns when every thread  *)
(* is through; the sum and the interpolation then run on the caller's      *)
(* thread.                                                                 *)
(***************************************************************************)
\* The number of threads of the pool.
MaxWorkers == 2

Workers == 1..MaxWorkers

\* the first element of the piece of thread w; the piece ends where the
\* next one starts
PieceStart(w) == ((w - 1) * M) \div MaxWorkers

\* input.fourier_coefficients_assign() on element i
for_each_fourier_coefficients_assign(products, i) ==
  [products EXCEPT ![i] = Polynomial_fourier_coefficients_assign(products[i])]

\* the closure multiplying element i into its neighbour's element
for_each_hadamard_product_assign_neighbour(products, i) ==
  [products EXCEPT ![(i + 1) % M] =
     Polynomial_hadamard_product_assign(products[(i + 1) % M], MULTIPLIER_FOURIER_COEFFICIENTS[i])]

\* input.hadamard_product_assign(&MULTIPLIER_FOURIER_COEFFICIENTS[i]) on element i
for_each_hadamard_product_assign(products, i) ==
  [products EXCEPT ![i] =
     Polynomial_hadamard_product_assign(products[i], MULTIPLIER_FOURIER_COEFFICIENTS[i])]

ParInput == GeneratedInput(1)

ParInit ==
  /\ under_test = "swifft_hash"
  /\ key \in 1..MaxKey
  /\ input_block = NoBlock
  /\ input = ParInput
  /\ hcall = NoCall
  /\ par = [pc |-> "clone", products |-> <<>>, digest |-> <<>>,
            next |-> [w \in Workers |-> PieceStart(w)],
            step |-> [w \in Workers |-> "fourier_coefficients_assign"]]
  /\ FieldIdle
  /\ PolyIdle
  /\ RefIdle
  /\ FftIdle
  /\ SysIdle

ParStep(new) ==
  /\ under_test = "swifft_hash"
  /\ par' = new
  /\ UNCHANGED <<under_test, key, input_block, input, hcall, fieldVars, polyVars, sysVars, refVars, fftVars>>

\* let mut product_fourier_coefficients = input.clone();
ParClone ==
  /\ par.pc = "clone"
  /\ ParStep([par EXCEPT !.pc = "for_each", !.products = input])

TaskFourierCoefficientsAssign(w) ==
  /\ par.pc = "for_each"
  /\ par.next[w] < PieceStart(w + 1)
  /\ par.step[w] = "fourier_coefficients_assign"
  /\ ParStep([par EXCEPT
                !.products = for_each_fourier_coefficients_assign(par.products, par.next[w]),
                !.step[w] = "hadamard_product_assign"])

TaskHadamardProductAssign(w) ==
  /\ par.pc = "for_each"
  /\ par.next[w] < PieceStart(w + 1)
  /\ par.step[w] = "hadamard_product_assign"
  /\ ParStep([par EXCEPT
                !.products = for_each_hadamard_product_assign(par.products, par.next[w]),
                !.step[w] = "fourier_coefficients_assign",
                !.next[w] = par.next[w] + 1])

\* for product in product_fourier_coefficients { digest += product }
ParSum ==
  /\ par.pc = "for_each"
  /\ \A w \in Workers : par.next[w] = PieceStart(w + 1)
  /\ ParStep([par EXCEPT
                !.pc = "interpolate",
                !.digest = ForRange(LAMBDA d, i : Polynomial_add_assign(d, par.products[i]),
                                    Polynomial_ZERO, 0, M)])

\* digest.interpolate_fourier_coefficients_assign(); digest
ParInterpolate ==
  /\ under_test = "swifft_hash"
  /\ par.pc = "interpolate"
  /\ par' = [par EXCEPT !.pc = "done",
                        !.digest = Polynomial_interpolate_fourier_coefficients_assign(par.digest)]
  /\ hcall' = Call("swifft_hash", 0, 0, Ok(par'.digest))
  /\ UNCHANGED <<under_test, key, input_block, input, fieldVars, polyVars, sysVars, refVars, fftVars>>

ParNext ==
  \/ ParClone
  \/ \E w \in Workers : TaskFourierCoefficientsAssign(w)
  \/ \E w \in Workers : TaskHadamardProductAssign(w)
  \/ ParSum
  \/ ParInterpolate

SpecPar == ParInit /\ [][ParNext]_vars

(***************************************************************************)
(* libswifft-sys: the constants (constant.rs), the buffers (buffer.rs)     *)
(* and the pure-Rust reference (reference/hash.rs).  An input block is a   *)
(* function on 0..255 to bytes; the reference's Output is 64 u16.  The     *)
(* reference functions read nothing of their input.                        *)
(***************************************************************************)
constant_M == 32

constant_INPUT_SIZE == N * constant_M

constant_INPUT_BLOCK_SIZE == constant_INPUT_SIZE \div 8

constant_OUTPUT_BLOCK_SIZE == 2 * N

\* let mut output: Output = [0; N]; output     (the loops are commented out)
reference_compute(input_) ==
  LET output == [i \in 0..(N - 1) |-> 0]
  IN  output

\* the body is empty: output is left as the caller passed it
reference_compute_multiple(input_, output) == output

\* The largest NUM_BLOCKS.
MaxBlocks == 2

SysBytes == 0..(constant_INPUT_BLOCK_SIZE - 1)

GeneratedSysBlock(s) ==
  [i \in SysBytes |-> (s * 104729 + i * i * 37 + i * s * 13 + (s + i) * (s + i) * (s + i)) % 256]

ReferenceBlocks ==
  {[i \in SysBytes |-> 0], [i \in SysBytes |-> 255], GeneratedSysBlock(1)}

\* what the caller's [u16; N] hold before the call
ReferenceOutputs == {[j \in 0..(N - 1) |-> v] : v \in {0, 1, P - 1}}

ReferenceInit ==
  /\ under_test = "reference"
  /\ \E NUM_BLOCKS \in 0..MaxBlocks :
       /\ inputs \in [0..(NUM_BLOCKS - 1) -> ReferenceBlocks]
       /\ outputs \in [0..(NUM_BLOCKS - 1) -> ReferenceOutputs]
  /\ sign_inputs = <<>>
  /\ scall = NoCall
  /\ FieldIdle
  /\ PolyIdle
  /\ RefIdle
  /\ FftIdle
  /\ HashIdle

ReferenceCompute == \E i \in DOMAIN inputs :
  /\ under_test = "reference"
  /\ scall' = Call("compute", i, 0, Ok(reference_compute(inputs[i])))
  /\ UNCHANGED <<under_test, inputs, sign_inputs, outputs, fieldVars, polyVars, hashVars, refVars, fftVars>>

ReferenceComputeMultiple ==
  /\ under_test = "reference"
  /\ outputs' = reference_compute_multiple(inputs, outputs)
  /\ scall' = Call("compute_multiple", 0, 0, Ok(0))
  /\ UNCHANGED <<under_test, inputs, sign_inputs, fieldVars, polyVars, hashVars, refVars, fftVars>>

ReferenceNext == ReferenceCompute \/ ReferenceComputeMultiple

SpecReference == ReferenceInit /\ [][ReferenceNext]_vars

(***************************************************************************)
(* libswifft-sys: the entry points of hash.rs.  They forward to the native *)
(* library, which is built from sources that are not among those modelled  *)
(* here; the native functions are written from the specification: the      *)
(* parsing of section 4.5, the transform-domain evaluation of section 4.6  *)
(* and the digest layout of section 6, with constant_M input polynomials.  *)
(* An output block is a function on 0..127 to bytes.                       *)
(***************************************************************************)
\* the multiplier polynomials of the native library, for each of the tables
SysMultiplierTables ==
  Array([k \in 1..MaxKey |->
    Array([i \in 0..(constant_M - 1) |->
      Array([j \in Index |-> (k * 611953 + i * i * 7907 + j * j * 29 + i * j * (k + 7) + 1) % P])])])

SysMultiplierFourierCoefficients ==
  Array([k \in 1..MaxKey |->
    Array([i \in 0..(constant_M - 1) |->
      Polynomial_fourier_coefficients_assign(SysMultiplierTables[k][i])])])

\* coefficient j of polynomial i is bit 64 * i + j of the block
SWIFFT_parse(input_) ==
  Array([i \in 0..(constant_M - 1) |->
    Array([j \in Index |->
      (input_[(N * i + j) \div 8] \div (2 ^ ((N * i + j) % 8))) % 2])])

\* the parsed value v becomes v if the sign bit is 0, else -v mod 257
SWIFFT_parse_signed(input_, sign_input) ==
  LET x == SWIFFT_parse(input_)
      sign == SWIFFT_parse(sign_input)
  IN  Array([i \in 0..(constant_M - 1) |->
        Array([j \in Index |-> IF sign[i][j] = 0 THEN x[i][j] ELSE Z257_cn_neg(x[i][j])])])

\* transform, multiply point-wise by the transformed multipliers, sum,
\* transform back
SWIFFT_compress(x) ==
  LET product ==
        Array([i \in 0..(constant_M - 1) |->
          Polynomial_hadamard_product_assign(
            Polynomial_fourier_coefficients_assign(x[i]),
            SysMultiplierFourierCoefficients[key][i])])
      sum ==
        ForRange(LAMBDA d, i : Polynomial_add_assign(d, product[i]),
                 Polynomial_ZERO, 0, constant_M)
  IN  Polynomial_interpolate_fourier_coefficients_assign(sum)

\* 64 little-endian 16-bit words, word i holding coefficient i
SWIFFT_digest_bytes(digest) ==
  Array([n \in 0..(constant_OUTPUT_BLOCK_SIZE - 1) |->
    IF n % 2 = 0 THEN digest[n \div 2] % 256 ELSE digest[n \div 2] \div 256])

SWIFFT_Compute(input_) == SWIFFT_digest_bytes(SWIFFT_compress(SWIFFT_parse(input_)))

SWIFFT_ComputeSigned(input_, sign_input) ==
  SWIFFT_digest_bytes(SWIFFT_compress(SWIFFT_parse_signed(input_, sign_input)))

\* nblocks blocks from the first one on, each into its own output block
SWIFFT_ComputeMultiple(nblocks, input_, output) ==
  Array([i \in DOMAIN output |->
    IF i < nblocks THEN SWIFFT_Compute(input_[i]) ELSE output[i]])

SWIFFT_ComputeMultipleSigned(nblocks, input_, sign_input, output) ==
  Array([i \in DOMAIN output |->
    IF i < nblocks THEN SWIFFT_ComputeSigned(input_[i], sign_input[i]) ELSE output[i]])

\* SWIFFT_Compute(input.0[0].as_ptr(), output.0[0].as_mut_ptr())
compute(input_, output) ==
  [output EXCEPT ![0] = SWIFFT_Compute(input_[0])]

compute_multiple(NUM_BLOCKS, input_, output) ==
  SWIFFT_ComputeMultiple(NUM_BLOCKS, input_, output)

\* compute_signed handing the two blocks over in the other order
compute_signed_swapped(input_, sign_input, output) ==
  [output EXCEPT ![0] = SWIFFT_ComputeSigned(sign_input[0], input_[0])]

compute_signed(input_, sign_input, output) ==
  [output EXCEPT ![0] = SWIFFT_ComputeSigned(input_[0], sign_input[0])]

compute_multiple_signed(NUM_BLOCKS, input_, sign_input, output) ==
  SWIFFT_ComputeMultipleSigned(NUM_BLOCKS, input_, sign_input, output)

\* AlignedBuffer::default()
AlignedBuffer_default(CHUNK_SIZE, NUM_CHUNKS) ==
  [i \in 0..(NUM_CHUNKS - 1) |-> [n \in 0..(CHUNK_SIZE - 1) |-> 0]]

\* AlignedBuffer::new(value)
AlignedBuffer_new(CHUNK_SIZE, NUM_CHUNKS, value) ==
  [i \in 0..(NUM_CHUNKS - 1) |-> [n \in 0..(CHUNK_SIZE - 1) |-> value]]

\* the pairs of an input block and a sign block, in a fixed order
SignedPairs ==
  <<[input |-> AlignedBuffer_new(constant_INPUT_BLOCK_SIZE, 1, 255)[0],
     sign |-> AlignedBuffer_new(constant_INPUT_BLOCK_SIZE, 1, 255)[0]],
    [input |-> AlignedBuffer_new(constant_INPUT_BLOCK_SIZE, 1, 255)[0],
     sign |-> AlignedBuffer_default(constant_INPUT_BLOCK_SIZE, 1)[0]],
    [input |-> AlignedBuffer_default(constant_INPUT_BLOCK_SIZE, 1)[0],
     sign |-> AlignedBuffer_new(constant_INPUT_BLOCK_SIZE, 1, 255)[0]],
    [input |-> [i \in SysBytes |-> IF i = constant_INPUT_BLOCK_SIZE - 1 THEN 128 ELSE 0],
     sign |-> AlignedBuffer_new(constant_INPUT_BLOCK_SIZE, 1, 255)[0]],
    [input |-> GeneratedSysBlock(1),
     sign |-> AlignedBuffer_default(constant_INPUT_BLOCK_SIZE, 1)[0]]>>
    \o [s \in 1..MaxInput |->
         [input |-> GeneratedSysBlock(s + 1), sign |-> GeneratedSysBlock(s + 11)]]

SysInit ==
  /\ under_test = "libswifft_sys"
  /\ key \in 1..MaxKey
  /\ \E NUM_BLOCKS \in 1..MaxBlocks : \E first \in 1..Len(SignedPairs) :
       /\ inputs = [i \in 0..(NUM_BLOCKS - 1) |->
                      SignedPairs[((first - 1 + i) % Len(SignedPairs)) + 1].input]
       /\ sign_inputs = [i \in 0..(NUM_BLOCKS - 1) |->
                           SignedPairs[((first - 1 + i) % Len(SignedPairs)) + 1].sign]
       /\ outputs = AlignedBuffer_default(constant_OUTPUT_BLOCK_SIZE, NUM_BLOCKS)
  /\ scall = NoCall
  /\ input_block = NoBlock /\ input = NoInput /\ hcall = NoCall /\ par = NoPar
  /\ FieldIdle
  /\ PolyIdle
  /\ RefIdle
  /\ FftIdle

SysCall(op, new) ==
  /\ under_test = "libswifft_sys"
  /\ scall.op = "none"
  /\ outputs' = new
  /\ scall' = Call(op, 0, 0, Ok(0))
  /\ UNCHANGED <<under_test, inputs, sign_inputs, fieldVars, polyVars, hashVars, refVars, fftVars>>

\* Input, SignInput and Output are the buffers of one block
Compute ==
  /\ DOMAIN inputs = {0}
  /\ SysCall("compute", compute(inputs, outputs))

ComputeSigned ==
  /\ DOMAIN inputs = {0}
  /\ SysCall("compute_signed", compute_signed(inputs, sign_inputs, outputs))

ComputeMultiple ==
  SysCall("compute_multiple", compute_multiple(Cardinality(DOMAIN inputs), inputs, outputs))

ComputeMultipleSigned ==
  SysCall("compute_multiple_signed",
          compute_multiple_signed(Cardinality(DOMAIN inputs), inputs, sign_inputs, outputs))

SysNext == Compute \/ ComputeSigned \/ ComputeMultiple \/ ComputeMultipleSigned

SpecSys == SysInit /\ [][SysNext]_vars

(***************************************************************************)
(* libswifft, reference implementation: libswifft/src/reference.  A         *)
(* Polynomial is its array of N u16 coefficients.  crate::reference::       *)
(* constant is not among the sources: N, P and M have the values of the     *)
(* ring above and the multiplier polynomials are those of the first table.  *)
(* u16 arithmetic that overflows panics in a build with overflow checks and *)
(* wraps modulo 2^16 in a build without: overflow_checks is the build.      *)
(***************************************************************************)
wrap_u16(x) == x % (2 ^ 16)

overflows_u16(x) == x < 0 \/ x >= 2 ^ 16

Running == [kind |-> "running", val |-> 0]

StackOverflow == [kind |-> "stack_overflow", val |-> 0]

libswifft_MULTIPLIER_POLYNOMIALS == MultiplierPolynomials[1]

libswifft_ZERO == Array([i \in Index |-> 0])

libswifft_new(coefficients) == Array([i \in Index |-> coefficients[i] % P])

libswifft_neg_coefficient(coefficient) == (P - (coefficient % P)) % P

libswifft_increment_power(self) ==
  ForRange(LAMBDA reduced_product, i : [reduced_product EXCEPT ![i] = self[i - 1]],
           [libswifft_ZERO EXCEPT ![0] = libswifft_neg_coefficient(self[N - 1])], 1, N)

\* the loop of evaluate_point over the u16 products and the u16 running sum
libswifft_evaluate_point_loop(self, point) ==
  LET point_powers ==
        ForRange(LAMBDA pp, i : [pp EXCEPT ![i] = (pp[i - 1] * point) % P],
                 [libswifft_ZERO EXCEPT ![0] = 1], 1, N)
  IN  ForRange(LAMBDA s, i :
                 LET product == point_powers[i] * self[i]
                     sum == s.evaluation + wrap_u16(product)
                 IN  [evaluation |-> wrap_u16(sum) % P,
                      overflow |-> s.overflow \/ overflows_u16(product) \/ overflows_u16(sum)],
               [evaluation |-> 0, overflow |-> FALSE], 0, N)

libswifft_evaluate_point(self, point, overflow_checks) ==
  LET done == libswifft_evaluate_point_loop(self, point)
  IN  IF done.overflow /\ overflow_checks THEN Panic ELSE Ok(done.evaluation)

libswifft_toeplitz_matrix(self) ==
  ForRange(LAMBDA m, i : [m EXCEPT ![i] = libswifft_increment_power(m[i - 1])],
           [Array([i \in Index |-> libswifft_ZERO]) EXCEPT ![0] = self], 1, N)

libswifft_add(self, rhs) == Array([i \in Index |-> (self[i] + rhs[i]) % P])

\* add_assign: the sums go into `coefficients`, a copy of self.coefficients
\* that is dropped on return; self keeps its coefficients
libswifft_add_assign(self, rhs) ==
  LET coefficients ==
        ForRange(LAMBDA cs, i : [cs EXCEPT ![i] = wrap_u16(cs[i] + rhs[i])], self, 0, N)
  IN  self

libswifft_neg(self) == Array([i \in Index |-> (P - (self[i] % P)) % P])

libswifft_sub(self, rhs) == libswifft_add(self, libswifft_neg(rhs))

\* sub_assign: the differences go into a copy as well; a u16 difference below
\* zero panics under overflow checks
libswifft_sub_assign(self, rhs, overflow_checks) ==
  LET underflow == \E i \in Index : overflows_u16(self[i] - rhs[i])
  IN  IF underflow /\ overflow_checks THEN Panic ELSE Ok(self)

libswifft_mul_u16(self, rhs) ==
  LET multiplier == rhs % P
  IN  Array([i \in Index |-> (self[i] * multiplier) % P])

libswifft_matrix_mul(self, rhs) ==
  Array([row \in Index |->
    ForRange(LAMBDA product, column : (product + self[column][row] * rhs[column]) % P,
             0, 0, N)])

libswifft_mul(self, rhs) == libswifft_matrix_mul(libswifft_toeplitz_matrix(self), rhs)

libswifft_swifft_hash(input_) ==
  ForRange(LAMBDA hash_polynomial, i :
             libswifft_add_assign(hash_polynomial,
                                  libswifft_mul(libswifft_MULTIPLIER_POLYNOMIALS[i], input_[i])),
           libswifft_ZERO, 0, M)

\* The depth the stack has room for.
MaxFrames == 4

LibPolynomials ==
  {libswifft_ZERO,
   libswifft_new([i \in Index |-> IF i = 0 THEN 1 ELSE 0]),
   libswifft_new([i \in Index |-> P - 1]),
   libswifft_new([i \in Index |-> IF i = N - 1 THEN P - 1 ELSE 0])}
    \cup {libswifft_new(GeneratedCoefficients(s)) : s \in 1..MaxSeed}

LibPoints == {0, 2, P - 1}

LibInputs == {<<>>} \cup {GeneratedInput(s) : s \in 1..MaxInput}

LibInit ==
  /\ under_test = "libswifft_reference"
  /\ ref_p \in LibPolynomials
  /\ ref_q \in LibPolynomials
  /\ ref_point \in LibPoints
  /\ ref_input \in LibInputs
  /\ ref_call = NoCall
  /\ ref_frames = 0
  /\ FieldIdle
  /\ PolyIdle
  /\ HashIdle
  /\ SysIdle
  /\ FftIdle

\* A call that returns a value and leaves self as it is.
LibPure(op, rhs, r) ==
  /\ under_test = "libswifft_reference"
  /\ ref_call.op = "none"
  /\ ref_call' = Call(op, ref_p, rhs, r)
  /\ UNCHANGED <<under_test, ref_p, ref_q, ref_point, ref_input, ref_frames,
                 fieldVars, polyVars, hashVars, sysVars, fftVars>>

LibAdd == LibPure("add", ref_q, Ok(libswifft_add(ref_p, ref_q)))
LibSub == LibPure("sub", ref_q, Ok(libswifft_sub(ref_p, ref_q)))
LibMul == LibPure("mul", ref_q, Ok(libswifft_mul(ref_p, ref_q)))
LibMulU16 == LibPure("mul_u16", ref_point, Ok(libswifft_mul_u16(ref_p, ref_point)))

LibEvaluatePoint ==
  \E overflow_checks \in BOOLEAN :
    LibPure("evaluate_point", ref_point,
            libswifft_evaluate_point(ref_p, ref_point, overflow_checks))

\* p += q: ref_p is what the caller's polynomial holds afterwards
LibAddAssign ==
  /\ under_test = "libswifft_reference"
  /\ ref_call.op = "none"
  /\ ref_call' = Call("add_assign", ref_p, ref_q, Ok(0))
  /\ ref_p' = libswifft_add_assign(ref_p, ref_q)
  /\ UNCHANGED <<under_test, ref_q, ref_point, ref_input, ref_frames,
                 fieldVars, polyVars, hashVars, sysVars, fftVars>>

LibSubAssign ==
  \E overflow_checks \in BOOLEAN :
    LET r == libswifft_sub_assign(ref_p, ref_q, overflow_checks)
    IN  /\ under_test = "libswifft_reference"
        /\ ref_call.op = "none"
        /\ ref_call' = Call("sub_assign", ref_p, ref_q, [r EXCEPT !.val = 0])
        /\ ref_p' = IF r.kind = "ok" THEN r.val ELSE ref_p
        /\ UNCHANGED <<under_test, ref_q, ref_point, ref_input, ref_frames,
                       fieldVars, polyVars, hashVars, sysVars, fftVars>>

LibSwifftHash ==
  /\ DOMAIN ref_input = 0..(M - 1)
  /\ LibPure("swifft_hash", ref_input, Ok(libswifft_swifft_hash(ref_input)))

\* Sum::sum(iter) is entered: the items of ref_input are the iterator's
LibSum ==
  /\ under_test = "libswifft_reference"
  /\ ref_call.op = "none"
  /\ ref_call' = Call("sum", ref_input, 0, Running)
  /\ ref_frames' = 1
  /\ UNCHANGED <<under_test, ref_p, ref_q, ref_point, ref_input,
                 fieldVars, polyVars, hashVars, sysVars, fftVars>>

\* the body of sum, `iter.sum()`: Iterator::sum::<Polynomial> hands the
\* iterator to Sum::sum again, in a new frame
LibSumIterSum ==
  /\ under_test = "libswifft_reference"
  /\ ref_call.op = "sum"
  /\ ref_call.kind = "running"
  /\ ref_frames < MaxFrames
  /\ ref_frames' = ref_frames + 1
  /\ UNCHANGED <<under_test, ref_p, ref_q, ref_point, ref_input, ref_call,
                 fieldVars, polyVars, hashVars, sysVars, fftVars>>

\* no room for one more frame: the thread overflows its stack
LibSumStackOverflow ==
  /\ under_test = "libswifft_reference"
  /\ ref_call.op = "sum"
  /\ ref_call.kind = "running"
  /\ ref_frames = MaxFrames
  /\ ref_call' = [ref_call EXCEPT !.kind = "stack_overflow"]
  /\ UNCHANGED <<under_test, ref_p, ref_q, ref_point, ref_input, ref_frames,
                 fieldVars, polyVars, hashVars, sysVars, fftVars>>

LibNext ==
  \/ LibAdd \/ LibSub \/ LibMul \/ LibMulU16 \/ LibEvaluatePoint
  \/ LibAddAssign \/ LibSubAssign \/ LibSwifftHash
  \/ LibSum \/ LibSumIterSum \/ LibSumStackOverflow

SpecLibswifft == LibInit /\ [][LibNext]_vars

(***************************************************************************)
(* libswifft-sys, reference Polynomial: libswifft-sys/src/reference/        *)
(* polynomial.rs.  The coefficients are u16 and so are the products and the *)
(* sums of the operators: one that does not fit panics under overflow       *)
(* checks and wraps modulo 2^16 without.                                    *)
(***************************************************************************)
sysref_new(coefficients) == Array([i \in Index |-> coefficients[i] % P])

sysref_add(self, rhs) == Array([i \in Index |-> (self[i] + rhs[i]) % P])

sysref_sub(self, rhs) ==
  Array([i \in Index |->
    LET negative == (P - (rhs[i] % P)) % P
    IN  (self[i] + negative) % P])

\* one step `acc = (acc + x * y).rem_euclid(P)` on u16 values
sysref_mul_add(s, x, y) ==
  LET product == x * y
      sum == s.acc + wrap_u16(product)
  IN  [acc |-> wrap_u16(sum) % P,
       overflow |-> s.overflow \/ overflows_u16(product) \/ overflows_u16(sum)]

\* (self[i] * multiplier).rem_euclid(P) for every i
sysref_mul_u16_loop(self, rhs) ==
  LET multiplier == rhs % P
  IN  Array([i \in Index |->
        sysref_mul_add([acc |-> 0, overflow |-> FALSE], self[i], multiplier)])

sysref_mul_u16(self, rhs, overflow_checks) ==
  LET result == sysref_mul_u16_loop(self, rhs)
  IN  IF overflow_checks /\ \E i \in Index : result[i].overflow THEN Panic
      ELSE Ok(Array([i \in Index |-> result[i].acc]))

\* the first loop of mul: product[i + j] takes self[i] * rhs[j] for i and
\* then j upwards, so product[k] takes its terms in the order of i
sysref_mul_product(self, rhs) ==
  Array([k \in 0..(2 * N - 2) |->
    ForRange(LAMBDA s, i :
               IF k - i \in Index THEN sysref_mul_add(s, self[i], rhs[k - i]) ELSE s,
             [acc |-> 0, overflow |-> FALSE], 0, N)])

\* reduction[i - N] = product[i - N] + product[i]; mul does not read it again
sysref_mul_reduction(product) ==
  ForRange(LAMBDA reduction, i : [reduction EXCEPT ![i - N] = product[i - N].acc + product[i].acc],
           Array([i \in Index |-> 0]), N, 2 * N - 1)

\* the last loop of mul: result[k] takes self[i] * rhs[k - i] for i in 0..=k
sysref_mul_result(self, rhs) ==
  Array([k \in Index |->
    ForRange(LAMBDA s, i : sysref_mul_add(s, self[i], rhs[k - i]),
             [acc |-> 0, overflow |-> FALSE], 0, k + 1)])

sysref_mul(self, rhs, overflow_checks) ==
  LET product == sysref_mul_product(self, rhs)
      reduction == sysref_mul_reduction(product)
      result == sysref_mul_result(self, rhs)
  IN  IF overflow_checks /\ \E k \in 0..(2 * N - 2) : product[k].overflow THEN Panic
      ELSE IF overflow_checks /\ \E k \in Index : result[k].overflow THEN Panic
      ELSE Ok(Array([k \in Index |-> result[k].acc]))

SysPolynomials ==
  {sysref_new([i \in Index |-> 0]),
   sysref_new([i \in Index |-> IF i = 0 THEN 1 ELSE 0]),
   sysref_new([i \in Index |-> IF i = 1 THEN 1 ELSE 0]),
   sysref_new([i \in Index |-> IF i = N - 1 THEN P - 1 ELSE 0]),
   sysref_new([i \in Index |-> P - 1])}
    \cup {sysref_new(GeneratedCoefficients(s)) : s \in 1..MaxSeed}

SysScalars == {2, P - 1, P + 2}

SysPolyInit ==
  /\ under_test = "libswifft_sys_reference_polynomial"
  /\ ref_p \in SysPolynomials
  /\ ref_q \in SysPolynomials
  /\ ref_point \in SysScalars
  /\ ref_input = <<>>
  /\ ref_call = NoCall
  /\ ref_frames = 0
  /\ FieldIdle
  /\ PolyIdle
  /\ HashIdle
  /\ SysIdle
  /\ FftIdle

SysPolyCall(op, rhs, r) ==
  /\ under_test = "libswifft_sys_reference_polynomial"
  /\ ref_call.op = "none"
  /\ ref_call' = Call(op, ref_p, rhs, r)
  /\ UNCHANGED <<under_test, ref_p, ref_q, ref_point, ref_input, ref_frames,
                 fieldVars, polyVars, hashVars, sysVars, fftVars>>

SysPolyAdd == SysPolyCall("add", ref_q, Ok(sysref_add(ref_p, ref_q)))
SysPolySub == SysPolyCall("sub", ref_q, Ok(sysref_sub(ref_p, ref_q)))

SysPolyMulU16 ==
  \E overflow_checks \in BOOLEAN :
    SysPolyCall("mul_u16", ref_point, sysref_mul_u16(ref_p, ref_point, overflow_checks))

SysPolyMul ==
  \E overflow_checks \in BOOLEAN :
    SysPolyCall("mul", ref_q, sysref_mul(ref_p, ref_q, overflow_checks))

SysPolyNext == SysPolyAdd \/ SysPolySub \/ SysPolyMulU16 \/ SysPolyMul

SpecSysPolynomial == SysPolyInit /\ [][SysPolyNext]_vars

(***************************************************************************)
(* recursive_butterfly_arithmetic of swifft-rs/src/fft.rs, call by call.    *)
(* A call on the n elements from base either is the base case or splits     *)
(* its slice in two, hands the halves to rayon::join and, once join has     *)
(* returned, combines them.  The joins down to depth MaxJoinDepth run their *)
(* two closures as tasks that interleave in every order; a call at that     *)
(* depth runs on one thread, the first closure and then the second, which   *)
(* is a schedule rayon::join may choose at every level.                     *)
(***************************************************************************)
MaxJoinDepth == 2

\* the base case, n == 2: t = a[1]; a[1] = a[0]; a[0] += &t; a[1] -= &t
recursive_base_case(a, base) ==
  LET t == a[base + 1]
  IN  [a EXCEPT ![base] = Z257_add_assign(a[base], t),
                ![base + 1] = Z257_sub_assign(a[base], t)]

\* the combination with every twiddle factor taken as if twiddle_chunk were 1
recursive_combine_unchunked(a, base, n, twiddle_chunk, twiddles) ==
  ForRange(LAMBDA s, j :
             LET ia == base + j
                 ib == base + n \div 2 + j
                 t == IF j = 0 THEN s[ib] ELSE Z257_mul_assign(s[ib], twiddles[j])
             IN  [s EXCEPT ![ia] = Z257_add_assign(s[ia], t),
                           ![ib] = Z257_sub_assign(s[ia], t)],
           a, 0, n \div 2)
\* what follows the join: the pair with twiddle factor one, then the zipped
\* rests of the halves with twiddles[(i + 1) * twiddle_chunk]
recursive_combine(a, base, n, twiddle_chunk, twiddles) ==
  ForRange(LAMBDA s, j :
             LET ia == base + j
                 ib == base + n \div 2 + j
                 t == IF j = 0 THEN s[ib]
                      ELSE Z257_mul_assign(s[ib], twiddles[j * twiddle_chunk])
             IN  [s EXCEPT ![ia] = Z257_add_assign(s[ia], t),
                           ![ib] = Z257_sub_assign(s[ia], t)],
           a, 0, n \div 2)

\* the whole call on one thread: the first closure, the second, the combination
RECURSIVE recursive_butterfly_arithmetic(_, _, _, _, _)
recursive_butterfly_arithmetic(a, base, n, twiddle_chunk, twiddles) ==
  IF n = 2 THEN recursive_base_case(a, base)
  ELSE LET left == recursive_butterfly_arithmetic(a, base, n \div 2,
                                                  twiddle_chunk * 2, twiddles)
           right == recursive_butterfly_arithmetic(left, base + n \div 2, n \div 2,
                                                   twiddle_chunk * 2, twiddles)
       IN  IF left = left /\ right = right
           THEN recursive_combine(right, base, n, twiddle_chunk, twiddles)
           ELSE a

\* rayon::join returns as soon as the first closure has
join_returns_after_first(done, base, n) == <<base, n \div 2>> \in done
\* rayon::join returns once both closures have
join_returned(done, base, n) ==
  <<base, n \div 2>> \in done /\ <<base + n \div 2, n \div 2>> \in done

\* the calls: <<base, n>> is the call on a[base .. base + n)
CallsOfSize(n) == {<<k * n, n>> : k \in 0..(N \div n - 1)}

SequentialSize == N \div (2 ^ MaxJoinDepth)

SequentialCalls == CallsOfSize(SequentialSize)

JoiningCalls ==
  UNION {CallsOfSize(N \div (2 ^ d)) : d \in 0..(MaxJoinDepth - 1)}

RecursiveInit ==
  /\ under_test = "recursive_butterfly_arithmetic"
  /\ fft_a \in {bitreverse_permute(x, N, LOG2_N) : x \in PolynomialInputs}
  /\ fft_done = {}
  /\ \E omega \in {OMEGA_ORDER_64, OMEGA_ORDER_64_INV} :
       fft_call = Call("recursive_butterfly_arithmetic", fft_a, omega, Running)
  /\ FieldIdle
  /\ PolyIdle
  /\ HashIdle
  /\ SysIdle
  /\ RefIdle

\* a call at depth MaxJoinDepth runs, on the thread that took it
RecursiveCallOnOneThread ==
  \E call \in SequentialCalls :
    /\ under_test = "recursive_butterfly_arithmetic"
    /\ call \notin fft_done
    /\ fft_a' = recursive_butterfly_arithmetic(fft_a, call[1], call[2], N \div call[2],
                                               precompute_twiddles(fft_call.rhs, N))
    /\ fft_done' = fft_done \cup {call}
    /\ UNCHANGED <<under_test, fft_call, fieldVars, polyVars, hashVars, sysVars, refVars>>

\* a call whose join has returned combines its halves and returns; the
\* outermost call returning ends the call under test
RecursiveCombine ==
  \E call \in JoiningCalls :
    /\ under_test = "recursive_butterfly_arithmetic"
    /\ call \notin fft_done
    /\ join_returned(fft_done, call[1], call[2])
    /\ fft_a' = recursive_combine(fft_a, call[1], call[2], N \div call[2],
                                  precompute_twiddles(fft_call.rhs, N))
    /\ fft_done' = fft_done \cup {call}
    /\ fft_call' = IF call = <<0, N>> THEN [fft_call EXCEPT !.kind = "ok"] ELSE fft_call
    /\ UNCHANGED <<under_test, fieldVars, polyVars, hashVars, sysVars, refVars>>

RecursiveNext == RecursiveCallOnOneThread \/ RecursiveCombine

SpecRecursive == RecursiveInit /\ [][RecursiveNext]_vars

(***************************************************************************)
(* Properties of the Polynomial under test.                                *)
(***************************************************************************)
OnPolynomial(ops) == under_test = "Polynomial" /\ pcall.op \in ops

\* C1: for all polynomials P, Q with canonical coefficients, naive_mul(P, Q)
\* and fft_mul(P, Q) return the same 64 coefficients: what fft_mul (or
\* fft_mul_assign) produced is what naive_mul returns for the same operands,
\* and what naive_mul produced is what fft_mul returns.
C1_NaiveMulEqualsFftMul ==
  /\ OnPolynomial({"fft_mul"}) =>
       Polynomial_naive_mul(pcall.self, pcall.rhs) = Ok(pcall.ret)
  /\ OnPolynomial({"fft_mul_assign"}) =>
       Polynomial_naive_mul(pcall.self, pcall.rhs) = Ok(p)
  /\ OnPolynomial({"naive_mul"}) =>
       /\ pcall.kind = "ok"
       /\ pcall.ret = Polynomial_fft_mul(pcall.self, pcall.rhs)

C1_Witness ==
  /\ OnPolynomial({"fft_mul"})
  /\ pcall.self \in Generated
  /\ pcall.rhs \in Generated
  /\ pcall.self # pcall.rhs
  /\ \E i \in Index : pcall.ret[i] # 0

\* x^n mod P by repeated squaring
RECURSIVE ModExp(_, _)
ModExp(x, n) ==
  IF n = 0 THEN 1
  ELSE LET h == ModExp(x, n \div 2)
       IN  (h * h * (IF n % 2 = 1 THEN x ELSE 1)) % P

\* The transform definition: Y[k] = sum over j of X[j] * omega^(j*k) mod P
DFT(X, omega) ==
  [k \in Index |->
     ForRange(LAMBDA acc, j : (acc + X[j] * ModExp(omega, j * k)) % P, 0, 0, N)]

\* C3: the forward transform followed by the inverse transform recovers the
\* polynomial: interpolate_fourier_coefficients(fourier_coefficients(P)) = P,
\* and best_fft with omega = 81, then best_fft with omega^-1, then every
\* coefficient multiplied by 64^-1 mod 257, gives back the 64 coefficients.
C3_TransformRoundTrip ==
  /\ OnPolynomial({"fourier_coefficients"}) =>
       Polynomial_interpolate_fourier_coefficients(pcall.ret) = pcall.self
  /\ OnPolynomial({"fourier_coefficients_assign"}) =>
       Polynomial_interpolate_fourier_coefficients_assign(p) = pcall.self
  /\ (OnPolynomial({"best_fft"}) /\ pcall.rhs = 81) =>
       /\ OMEGA_ORDER_64 = 81
       /\ Z257_cn_mul(OMEGA_ORDER_64, OMEGA_ORDER_64_INV) = 1
       /\ Polynomial_scalar_mul(best_fft(p, OMEGA_ORDER_64_INV, LOG2_N),
                                Z257_cn_inv(Z257_new(N)).val) = pcall.self

C3_Witness ==
  /\ OnPolynomial({"fourier_coefficients"})
  /\ pcall.self \in Generated
  /\ pcall.ret # pcall.self

\* C4: best_fft(X, omega = 81, log_n = 6) leaves in every position k the
\* value sum over j of X[j] * omega^(j*k) mod 257.
C4_BestFftIsDFT ==
  (OnPolynomial({"best_fft"}) /\ pcall.rhs = 81) =>
     /\ OMEGA_ORDER_64 = 81
     /\ LOG2_N = 6
     /\ \A k \in Index : p[k] = DFT(pcall.self, 81)[k]

C4_Witness ==
  /\ OnPolynomial({"best_fft"})
  /\ pcall.rhs = 81
  /\ pcall.self \in Generated
  /\ p # pcall.self

\* C5: the transform is linear: best_fft(X + Y) = best_fft(X) + best_fft(Y)
\* and best_fft(c * X) = c * best_fft(X) coefficient-wise for the same omega,
\* and likewise for fourier_coefficients.
C5_TransformLinear ==
  /\ OnPolynomial({"best_fft"}) =>
       /\ best_fft(Polynomial_cn_add(pcall.self, q), pcall.rhs, LOG2_N)
            = Polynomial_cn_add(p, best_fft(q, pcall.rhs, LOG2_N))
       /\ best_fft(Polynomial_scalar_mul(pcall.self, zc), pcall.rhs, LOG2_N)
            = Polynomial_scalar_mul(p, zc)
  /\ OnPolynomial({"fourier_coefficients"}) =>
       /\ Polynomial_fourier_coefficients(Polynomial_cn_add(pcall.self, q))
            = Polynomial_cn_add(pcall.ret, Polynomial_fourier_coefficients(q))
       /\ Polynomial_fourier_coefficients(Polynomial_scalar_mul(pcall.self, zc))
            = Polynomial_scalar_mul(pcall.ret, zc)

C5_Witness ==
  /\ OnPolynomial({"best_fft"})
  /\ pcall.self \in Generated
  /\ q \in Generated
  /\ q # pcall.self
  /\ zc = 3

\* C6: increment_power(P) is P multiplied by alpha: it equals
\* naive_mul(P, ALPHA), with result[0] = -P[63] mod 257 and
\* result[i] = P[i-1] for 1 <= i < 64.
C6_IncrementPowerIsMulByAlpha ==
  /\ OnPolynomial({"increment_power"}) =>
       /\ Polynomial_naive_mul(pcall.self, Polynomial_ALPHA) = Ok(pcall.ret)
       /\ pcall.ret[0] = (P - pcall.self[N - 1]) % P
       /\ \A i \in 1..(N - 1) : pcall.ret[i] = pcall.self[i - 1]
  /\ (OnPolynomial({"naive_mul"}) /\ pcall.rhs = Polynomial_ALPHA) =>
       pcall.ret = Polynomial_increment_power(pcall.self)

C6_Witness ==
  /\ OnPolynomial({"increment_power"})
  /\ pcall.self \in Generated
  /\ pcall.self[N - 1] # 0
  /\ pcall.ret[0] = P - pcall.self[N - 1]

\* C7: ONE is the multiplicative and ZERO the additive identity: P * ONE =
\* ONE * P = P and P * ZERO = ZERO with the Mul operator, with fft_mul and
\* with naive_mul; P + ZERO = P; P + (-P) = ZERO.
C7_Identities ==
  /\ OnPolynomial({"mul", "fft_mul", "naive_mul"}) =>
       /\ pcall.kind = "ok"
       /\ pcall.rhs = Polynomial_ONE => pcall.ret = pcall.self
       /\ pcall.self = Polynomial_ONE => pcall.ret = pcall.rhs
       /\ pcall.rhs = Polynomial_ZERO => pcall.ret = Polynomial_ZERO
  /\ OnPolynomial({"add"}) =>
       (pcall.rhs = Polynomial_ZERO => pcall.ret = pcall.self)
  /\ OnPolynomial({"neg"}) =>
       Polynomial_add(pcall.self, pcall.ret) = Polynomial_ZERO

C7_Witness ==
  /\ OnPolynomial({"mul"})
  /\ pcall.self \in Generated
  /\ pcall.rhs = Polynomial_ONE
  /\ pcall.ret = pcall.self

(***************************************************************************)
(* Properties of the Z257 under test.                                      *)
(***************************************************************************)
OnZ257(ops) == under_test = "Z257" /\ fcall.op \in ops

NonZero == Field \ {0}

\* C9: neg(0) = 0 and neg(x) = 257 - x for x # 0; add(a, b) = (a + b) mod
\* 257; sub(a, b) = (a + 257 - b) mod 257; mul(a, b) = (a * b) mod 257; hence
\* add(a, neg(a)) = 0 and sub(add(a, b), b) = a; neg_assign, +=, -= and *=
\* give the results of cn_neg, cn_add, cn_sub and cn_mul.  The recorded call
\* is checked, and with it the same call of self on every field element.
C9_FieldArithmetic ==
  /\ OnZ257({"cn_neg"}) =>
       /\ fcall.ret = (IF fcall.self = 0 THEN 0 ELSE P - fcall.self)
       /\ Z257_cn_add(fcall.self, fcall.ret) = 0
  /\ OnZ257({"cn_add"}) =>
       /\ fcall.ret = (fcall.self + fcall.rhs) % P
       /\ Z257_cn_sub(fcall.ret, fcall.rhs) = fcall.self
       /\ \A y \in Field :
            /\ Z257_cn_add(fcall.self, y) = (fcall.self + y) % P
            /\ Z257_cn_sub(Z257_cn_add(fcall.self, y), y) = fcall.self
  /\ OnZ257({"cn_sub"}) =>
       /\ fcall.ret = (fcall.self + P - fcall.rhs) % P
       /\ \A y \in Field : Z257_cn_sub(fcall.self, y) = (fcall.self + P - y) % P
  /\ OnZ257({"cn_mul"}) =>
       /\ fcall.ret = (fcall.self * fcall.rhs) % P
       /\ \A y \in Field : Z257_cn_mul(fcall.self, y) = (fcall.self * y) % P
  /\ OnZ257({"neg_assign"}) => z = Z257_cn_neg(fcall.self)
  /\ OnZ257({"add_assign"}) =>
       /\ z = Z257_cn_add(fcall.self, fcall.rhs)
       /\ \A y \in Field : Z257_add_assign(fcall.self, y) = Z257_cn_add(fcall.self, y)
  /\ OnZ257({"sub_assign"}) =>
       /\ z = Z257_cn_sub(fcall.self, fcall.rhs)
       /\ \A y \in Field : Z257_sub_assign(fcall.self, y) = Z257_cn_sub(fcall.self, y)
  /\ OnZ257({"mul_assign"}) =>
       /\ z = Z257_cn_mul(fcall.self, fcall.rhs)
       /\ \A y \in Field : Z257_mul_assign(fcall.self, y) = Z257_cn_mul(fcall.self, y)

C9_Witness ==
  /\ OnZ257({"sub_assign"})
  /\ fcall.self < fcall.rhs
  /\ fcall.self # 0
  /\ z = fcall.self + P - fcall.rhs

\* C10: for every non-zero x, inv(x) = x^255 mod 257 and mul(x, inv(x)) = 1;
\* for every a and every non-zero b, div(a, b) = mul(a, inv(b)), so
\* mul(div(a, b), b) = a.  The recorded call is checked, and with it the
\* division of self by every non-zero field element.
C10_InverseAndDivision ==
  /\ (OnZ257({"cn_inv", "cn_inv_checked", "invert"}) /\ fcall.self # 0) =>
       /\ fcall.kind = "ok"
       /\ fcall.ret = ModExp(fcall.self, 255)
       /\ Z257_cn_mul(fcall.self, fcall.ret) = 1
  /\ (OnZ257({"inv_assign", "inv_assign_checked"}) /\ fcall.self # 0) =>
       /\ fcall.kind = "ok"
       /\ z = ModExp(fcall.self, 255)
       /\ Z257_cn_mul(fcall.self, z) = 1
  /\ (OnZ257({"cn_div", "cn_checked_div"}) /\ fcall.rhs # 0) =>
       /\ fcall.kind = "ok"
       /\ fcall.ret = Z257_cn_mul(fcall.self, Z257_cn_inv(fcall.rhs).val)
       /\ Z257_cn_mul(fcall.ret, fcall.rhs) = fcall.self
       /\ \A y \in NonZero :
            /\ Z257_cn_div(fcall.self, y) = Ok(Z257_cn_mul(fcall.self, Z257_cn_inv(y).val))
            /\ Z257_cn_checked_div(fcall.self, y) = Z257_cn_div(fcall.self, y)
            /\ Z257_cn_mul(Z257_cn_div(fcall.self, y).val, y) = fcall.self
  /\ (OnZ257({"div_assign", "checked_div_assign"}) /\ fcall.rhs # 0) =>
       /\ fcall.kind = "ok"
       /\ z = Z257_cn_mul(fcall.self, Z257_cn_inv(fcall.rhs).val)
       /\ Z257_cn_mul(z, fcall.rhs) = fcall.self

C10_Witness ==
  /\ OnZ257({"cn_div"})
  /\ fcall.self \notin {0, 1}
  /\ fcall.rhs \notin {0, 1, P - 1}
  /\ fcall.kind = "ok"
  /\ Z257_cn_mul(fcall.ret, fcall.rhs) = fcall.self

(***************************************************************************)
(* Every value the crate builds: a Z257 under any sequence of its          *)
(* constructors and operations, or a Polynomial under a call.              *)
(***************************************************************************)
CanonInit == FieldInit \/ PolyInit

CanonNext == FieldNext \/ PolyNext

SpecCanon == CanonInit /\ [][CanonNext]_vars

Canonical(a) == \A i \in DOMAIN a : a[i] \in Field

ReturnsPolynomial ==
  {"cn_neg", "cn_add", "cn_sub", "scalar_mul", "hadamard_product",
   "increment_power", "naive_mul", "fourier_coefficients",
   "interpolate_fourier_coefficients", "fft_mul", "neg", "add", "mul"}

\* C8: after any sequence of Z257 constructors and operations the stored u16
\* is in [0, 257); every coefficient of every Polynomial is in [0, 257); and
\* matrix_mul_col_vec never takes its value-range panic.
C8_CanonicalRepresentative ==
  /\ under_test = "Z257" =>
       /\ z \in Field
       /\ b \in Field
       /\ fcall.kind = "ok" => fcall.ret \in Field
  /\ under_test = "Polynomial" =>
       /\ Canonical(p)
       /\ Canonical(q)
       /\ zc \in Field
       /\ pcall.kind # "panic"
       /\ pcall.op \in ReturnsPolynomial => Canonical(pcall.ret)
       /\ pcall.op = "naive_mul" =>
            ~value_out_of_range(Polynomial_toeplitz_matrix(pcall.self), pcall.rhs)

C8_Witness ==
  /\ OnZ257({"add_assign"})
  /\ fcall.self + fcall.rhs >= P
  /\ fcall.rhs # 0
  /\ z = fcall.self + fcall.rhs - P

(***************************************************************************)
(* Properties of the hash functions.                                       *)
(***************************************************************************)
OnHash(ops) == under_test = "SwifftInput" /\ hcall.op \in ops

\* C2: for every SwifftInput X, swifft_hash(X) returns exactly
\* swifft_hash_naive(X), the sum of the schoolbook products
\* MULTIPLIER_POLYNOMIALS[i] * X[i], and swifft_hash_fft_simple(X) returns
\* the same value: each function's digest is compared with the next one's.
C2_HashPathsAgree ==
  /\ OnHash({"swifft_hash"}) => swifft_hash_naive(input) = Ok(hcall.ret)
  /\ OnHash({"swifft_hash_fft_simple"}) => swifft_hash(input) = hcall.ret
  /\ OnHash({"swifft_hash_naive"}) =>
       /\ hcall.kind = "ok"
       /\ swifft_hash_fft_simple(input) = hcall.ret

C2_Witness ==
  /\ OnHash({"swifft_hash"})
  /\ input \in GeneratedInputs
  /\ \E i \in Index : hcall.ret[i] # 0

\* C11: for every field element a and exponent e in [0, 257), pow(a, e), the
\* POW table lookup, is a^e mod 257; pow(a, 0) = 1 for every a, 0 included;
\* pow(a, 256) = 1 for every a # 0; square(a) = mul(a, a).  The recorded call
\* is checked, and with it the power of self for every exponent.
C11_PowTable ==
  /\ OnZ257({"cn_pow"}) =>
       /\ fcall.ret = ModExp(fcall.self, fcall.rhs)
       /\ \A e \in Field : Z257_cn_pow(fcall.self, e) = ModExp(fcall.self, e)
       /\ Z257_cn_pow(fcall.self, 0) = 1
       /\ fcall.self # 0 => Z257_cn_pow(fcall.self, P - 1) = 1
  /\ OnZ257({"pow_assign"}) => z = ModExp(fcall.self, fcall.rhs)
  /\ OnZ257({"square"}) =>
       /\ fcall.ret = Z257_cn_mul(fcall.self, fcall.self)
       /\ fcall.ret = (fcall.self * fcall.self) % P

C11_Witness ==
  /\ OnZ257({"cn_pow"})
  /\ fcall.self \notin {0, 1, P - 1}
  /\ fcall.rhs = P - 1
  /\ fcall.ret = 1

\* C12: exponents are reduced mod 256 by Fermat: for every non-zero a and
\* every exponent e passed to the Pow operator as a u16 or a u64, e >= 257
\* included, a.pow(e) is a^(e mod 256) mod 257, the true value of a^e mod 257.
C12_PowReducesExponentMod256 ==
  (OnZ257({"pow_u16", "pow_u64"}) /\ fcall.self # 0) =>
     /\ fcall.ret = ModExp(fcall.self, fcall.rhs % 256)
     /\ fcall.ret = ModExp(fcall.self, fcall.rhs)

\* What the Pow operator computes: the exponent is reduced mod 257 by the
\* conversion into a Z257 before the table lookup.
C12_PowReducesExponentModP ==
  OnZ257({"pow_u16", "pow_u64"}) =>
     fcall.ret = ModExp(fcall.self, fcall.rhs % P)

C12_Witness ==
  /\ OnZ257({"pow_u16"})
  /\ fcall.self = 2
  /\ fcall.rhs = P
  /\ fcall.ret = 1

\* C13: inversion and division fail when and only when the invertend or the
\* divisor is zero: cn_inv, inv_assign, cn_div, / and /= panic exactly then;
\* cn_inv_checked, cn_checked_div, checked_div_assign, inv_assign_checked and
\* Field::invert report None exactly then, and on that failure
\* checked_div_assign and inv_assign_checked leave self unchanged.
C13_FailsExactlyOnZero ==
  /\ OnZ257({"cn_inv", "inv_assign"}) =>
       /\ fcall.kind \in {"ok", "panic"}
       /\ fcall.kind = "panic" <=> fcall.self = 0
  /\ OnZ257({"cn_div", "div", "div_assign"}) =>
       /\ fcall.kind \in {"ok", "panic"}
       /\ fcall.kind = "panic" <=> fcall.rhs = 0
       /\ \A y \in Field :
            /\ Z257_cn_div(fcall.self, y).kind = "panic" <=> y = 0
            /\ Z257_div(fcall.self, y).kind = "panic" <=> y = 0
            /\ Z257_div_assign(fcall.self, y).kind = "panic" <=> y = 0
  /\ OnZ257({"cn_inv_checked", "inv_assign_checked", "invert"}) =>
       /\ fcall.kind \in {"ok", "none"}
       /\ fcall.kind = "none" <=> fcall.self = 0
  /\ OnZ257({"cn_checked_div", "checked_div_assign"}) =>
       /\ fcall.kind \in {"ok", "none"}
       /\ fcall.kind = "none" <=> fcall.rhs = 0
       /\ \A y \in Field :
            /\ Z257_cn_checked_div(fcall.self, y).kind = "none" <=> y = 0
            /\ Z257_checked_div_assign(fcall.self, y).kind = "none" <=> y = 0
  /\ (OnZ257({"checked_div_assign", "inv_assign_checked"}) /\ fcall.kind = "none") =>
       z = fcall.self

C13_Witness ==
  /\ OnZ257({"checked_div_assign"})
  /\ fcall.rhs = 0
  /\ fcall.self # 0
  /\ fcall.kind = "none"
  /\ z = fcall.self

\* The named roots of unity, from the generator of order 256 down to order 2:
\* NamedRoots[i] is named as a root of order 2^(9 - i).
NamedRoots ==
  <<LEAST_PRIMITIVE_ROOT, OMEGA_ORDER_128, OMEGA_ORDER_64, OMEGA_ORDER_32,
    OMEGA_ORDER_16, OMEGA_ORDER_8, OMEGA_ORDER_4, OMEGA_ORDER_2>>

\* C14: LEAST_PRIMITIVE_ROOT = 3, OMEGA_ORDER_128 = 9, OMEGA_ORDER_64 = 81,
\* each next root is the square of the previous one down to OMEGA_ORDER_2, and
\* OMEGA_ORDER_k has multiplicative order exactly k (omega^k = 1,
\* omega^(k/2) = 256, no smaller positive power is 1); 3 has order 256.
C14_RootsOfUnity ==
  /\ LEAST_PRIMITIVE_ROOT = 3
  /\ OMEGA_ORDER_128 = 9
  /\ OMEGA_ORDER_64 = 81
  /\ \A i \in 1..7 : NamedRoots[i + 1] = Z257_cn_mul(NamedRoots[i], NamedRoots[i])
  /\ \A i \in 1..8 :
       (OnZ257({"cn_pow"}) /\ fcall.self = NamedRoots[i]) =>
          LET k == 2 ^ (9 - i)
          IN  /\ Z257_cn_pow(fcall.self, k) = 1
              /\ Z257_cn_pow(fcall.self, k \div 2) = P - 1
              /\ \A e \in 1..(k - 1) : Z257_cn_pow(fcall.self, e) # 1
              /\ (fcall.rhs = 2 /\ i < 8) => fcall.ret = NamedRoots[i + 1]

C14_Witness ==
  /\ OnZ257({"cn_pow"})
  /\ fcall.self = OMEGA_ORDER_64
  /\ fcall.rhs = 2
  /\ fcall.ret = OMEGA_ORDER_32
  /\ Z257_cn_pow(fcall.self, 32) = P - 1

(***************************************************************************)
(* Properties of parse_input_block and of the digests of parsed blocks.    *)
(***************************************************************************)
\* the bit of blk at input position pos: (blk[pos >> 3] >> (pos & 7)) & 1
BitAt(blk, pos) == (blk[pos \div 8] \div (2 ^ (pos % 8))) % 2

\* C15 as stated: parse_input_block takes a 256-byte block and produces 16
\* polynomials; for every input position pos in 0..2047 the bit
\* (block[pos >> 3] >> (pos & 7)) & 1 is the coefficient pos % 64 of the
\* polynomial pos / 64, and every coefficient is 0 or 1.
C15_ParsesBlockOf256Bytes ==
  OnHash({"parse_input_block"}) =>
    /\ DOMAIN input_block = 0..255
    /\ DOMAIN hcall.ret = 0..15
    /\ \A pos \in 0..2047 :
         hcall.ret[pos \div 64][pos % 64] = BitAt(input_block, pos)
    /\ \A i \in DOMAIN hcall.ret : \A j \in DOMAIN hcall.ret[i] :
         hcall.ret[i][j] \in {0, 1}

\* C15, amended: parse_input_block takes a 128-byte block (64 * 16 / 8) and
\* produces 16 polynomials of 64 coefficients; for every input position pos
\* in 0..1023 the bit (block[pos >> 3] >> (pos & 7)) & 1 is the coefficient
\* pos % 64 of the polynomial pos / 64; every coefficient is 0 or 1, and
\* since the 1024 positions are all the coefficients there is no other one.
C15_ParsesBlockOf128Bytes ==
  OnHash({"parse_input_block"}) =>
    /\ DOMAIN input_block = 0..127
    /\ DOMAIN hcall.ret = 0..15
    /\ \A i \in 0..15 : DOMAIN hcall.ret[i] = 0..63
    /\ \A pos \in 0..1023 :
         hcall.ret[pos \div 64][pos % 64] = BitAt(input_block, pos)
    /\ \A i \in 0..15 : \A j \in 0..63 : hcall.ret[i][j] \in {0, 1}
    /\ input = hcall.ret

C15_Witness ==
  /\ OnHash({"parse_input_block"})
  /\ input_block = GeneratedBlock(1)
  /\ \E i \in 0..15 : \E j, k \in 0..63 : hcall.ret[i][j] = 1 /\ hcall.ret[i][k] = 0

\* the input positions of blk that hold a 1
SetBits(blk) ==
  {pos \in 0..(8 * Cardinality(DOMAIN blk) - 1) : BitAt(blk, pos) = 1}

\* a * alpha^j in Z257[alpha]/(alpha^64 + 1): the coefficients move up by j
\* places, and those that pass alpha^63 come back negated
TimesAlphaPower(a, j) ==
  [k \in 0..63 |-> IF k >= j THEN a[k - j] ELSE (257 - a[k - j + 64]) % 257]

\* C16: when the parsed block has exactly one bit set, at position 64*i + j
\* (0 <= i < 16, 0 <= j < 64), swifft_hash of the parsed input is
\* MULTIPLIER_POLYNOMIALS[i] * alpha^j; the bit at position 0 gives A_0, the
\* bit at position 64, which is bit 0 of byte 8, gives A_1, and the all-zero
\* block gives the zero polynomial.
C16_SingleBitDigest ==
  OnHash({"swifft_hash"}) /\ input_block # NoBlock =>
    /\ \A i \in 0..15 : \A j \in 0..63 :
         SetBits(input_block) = {64 * i + j} =>
           hcall.ret = TimesAlphaPower(MULTIPLIER_POLYNOMIALS[i], j)
    /\ SetBits(input_block) = {0} => hcall.ret = MULTIPLIER_POLYNOMIALS[0]
    /\ input_block[8] = 1 /\ (\A i \in DOMAIN input_block \ {8} : input_block[i] = 0) =>
         /\ SetBits(input_block) = {64}
         /\ hcall.ret = MULTIPLIER_POLYNOMIALS[1]
    /\ SetBits(input_block) = {} => hcall.ret = Polynomial_ZERO

C16_Witness ==
  /\ OnHash({"swifft_hash"})
  /\ input_block = SingleBitBlock(GeneratedPosition(1))
  /\ GeneratedPosition(1) % 64 # 0
  /\ hcall.ret # MULTIPLIER_POLYNOMIALS[GeneratedPosition(1) \div 64]
  /\ hcall.ret # Polynomial_ZERO

\* C17 as stated: the top bit of the block is bit 2047, bit 7 of byte 255,
\* and swifft_hash of the block whose only set bit is the top bit is
\* A_15 * alpha^63.
C17_TopBitIs2047 ==
  /\ OnHash({"swifft_hash"})
  /\ input_block # NoBlock
  /\ SetBits(input_block) = {8 * Cardinality(DOMAIN input_block) - 1}
  => /\ 8 * Cardinality(DOMAIN input_block) - 1 = 2047
     /\ input_block[255] = 128
     /\ hcall.ret = TimesAlphaPower(MULTIPLIER_POLYNOMIALS[15], 63)

\* C17, amended: the top bit of the block is bit 1023, bit 7 of byte 127,
\* and swifft_hash of the block whose only set bit is the top bit is
\* A_15 * alpha^63.
C17_TopBitIs1023 ==
  /\ OnHash({"swifft_hash"})
  /\ input_block # NoBlock
  /\ SetBits(input_block) = {8 * Cardinality(DOMAIN input_block) - 1}
  => /\ 8 * Cardinality(DOMAIN input_block) - 1 = 1023
     /\ input_block[127] = 128
     /\ hcall.ret = TimesAlphaPower(MULTIPLIER_POLYNOMIALS[15], 63)

C17_Witness ==
  /\ OnHash({"swifft_hash"})
  /\ input_block # NoBlock
  /\ input_block[127] = 128
  /\ SetBits(input_block) = {1023}
  /\ hcall.ret[63] = MULTIPLIER_POLYNOMIALS[15][0]
  /\ hcall.ret # Polynomial_ZERO

(***************************************************************************)
(* Properties of swifft_hash run task by task.                             *)
(***************************************************************************)
\* what running the closure on the elements in index order leaves in them
SequentialTransforms ==
  Array([i \in 0..(M - 1) |-> Polynomial_fourier_coefficients_assign(ParInput[i])])

SequentialProducts ==
  Array([k \in 1..MaxKey |->
    Array([i \in 0..(M - 1) |->
      Polynomial_hadamard_product_assign(SequentialTransforms[i],
                                         MultiplierFourierCoefficients[k][i])])])

\* the thread whose piece holds element i
Owner(i) == CHOOSE w \in Workers : PieceStart(w) <= i /\ i < PieceStart(w + 1)

\* C18: under every interleaving of the steps of the 16 tasks, a task
\* changes its own element only: an element whose task has not started is
\* the caller's, one whose task is between its two calls is the transform
\* of the caller's, and one whose task is through is the product that the
\* run in index order gives; so the 16 products, their sum and the digest
\* are those of the sequential run, and the caller's input is unchanged.
C18_ScheduleIndependent ==
  under_test = "swifft_hash" =>
    /\ input = ParInput
    /\ par.pc # "clone" =>
         \A i \in 0..(M - 1) :
           par.products[i] =
             IF i < par.next[Owner(i)] THEN SequentialProducts[key][i]
             ELSE IF i = par.next[Owner(i)] /\ par.step[Owner(i)] = "hadamard_product_assign"
                  THEN SequentialTransforms[i]
                  ELSE input[i]
    /\ par.pc = "interpolate" =>
         par.digest = ForRange(LAMBDA d, i : Polynomial_add_assign(d, SequentialProducts[key][i]),
                               Polynomial_ZERO, 0, M)
    /\ par.pc = "done" =>
         /\ par.products = SequentialProducts[key]
         /\ hcall.ret = swifft_hash(input)

\* the last thread is through its piece while the first is between the two
\* calls of its first task
C18_Witness ==
  /\ under_test = "swifft_hash"
  /\ par.pc = "for_each"
  /\ par.next[MaxWorkers] = M
  /\ par.next[1] = 0
  /\ par.step[1] = "hadamard_product_assign"
  /\ par.products[M - 1] # input[M - 1]
  /\ par.products[0] # input[0]

(***************************************************************************)
(* Properties of libswifft-sys.                                            *)
(***************************************************************************)
OnReference(ops) == under_test = "reference" /\ scall.op \in ops

\* C19: after compute_multiple on NUM_BLOCKS input blocks and the caller's
\* output array, output[i] is the digest that compute returns for block i,
\* for every i below NUM_BLOCKS.
C19_BatchEquivalence ==
  OnReference({"compute_multiple"}) =>
    \A i \in DOMAIN inputs : outputs[i] = reference_compute(inputs[i])

\* one block, and an output array that did not hold zeros before the call
C19_Witness ==
  /\ OnReference({"compute_multiple"})
  /\ DOMAIN inputs = {0}
  /\ outputs[0][0] = 1
  /\ reference_compute(inputs[0])[0] = 0

OnSys(ops) == under_test = "libswifft_sys" /\ scall.op \in ops

SysPositions == 0..(constant_INPUT_SIZE - 1)

\* the coefficient v * s of input position pos: v is the input bit, s is +1
\* for sign bit 0 and -1, which is 256 mod 257, for sign bit 1
SignedCoefficient(input_, sign_input, pos) ==
  IF BitAt(input_, pos) = 0 THEN 0
  ELSE IF BitAt(sign_input, pos) = 0 THEN 1 ELSE 256

\* the sum over i of A_i * X_i in Z257[alpha]/(alpha^64 + 1), term by term:
\* the coefficient at position 64 * i + j adds itself times A_i * alpha^j
Compression(input_, sign_input) ==
  ForRange(LAMBDA d, pos :
             LET coefficient == SignedCoefficient(input_, sign_input, pos)
                 a == SysMultiplierTables[key][pos \div 64]
                 j == pos % 64
             IN  IF coefficient = 0 THEN d
                 ELSE Array([k \in 0..63 |->
                        (d[k] + coefficient *
                           (IF k >= j THEN a[k - j] ELSE (257 - a[k - j + 64]) % 257)) % 257]),
           Array([k \in 0..63 |-> 0]), 0, constant_INPUT_SIZE)

\* the coefficients an output block holds, as little-endian 16-bit words
DigestOf(output_block) == [k \in 0..63 |-> output_block[2 * k] + 256 * output_block[2 * k + 1]]

\* sign_input with the bit at position pos changed
FlipSign(sign_input, pos) ==
  [sign_input EXCEPT ![pos \div 8] =
     IF BitAt(sign_input, pos) = 1 THEN @ - 2 ^ (pos % 8) ELSE @ + 2 ^ (pos % 8)]

\* sign_input with every bit changed whose paired input bit is 0
FlipSignsOfZeroBits(input_, sign_input) ==
  [n \in DOMAIN sign_input |-> ((255 - input_[n]) + sign_input[n]
                                  - 2 * ForRange(LAMBDA acc, t :
                                          acc + 2 ^ t * (1 - BitAt(input_, 8 * n + t))
                                                      * BitAt(sign_input, 8 * n + t),
                                        0, 0, 8))]

ZeroBits(input_) == {pos \in SysPositions : BitAt(input_, pos) = 0}

\* the lowest and the highest position that holds a 0, if there is one
EndsOf(positions) ==
  {pos \in positions : \A other \in positions : other >= pos}
    \cup {pos \in positions : \A other \in positions : other <= pos}

C21_FromU8HoldsTheByte ==
  OnZ257({"from_u8"}) =>
    /\ fcall.ret = fcall.self
    /\ fcall.ret = Z257_new(fcall.self)
    /\ fcall.ret = Z257_from_u64(fcall.self)

C21_Witness ==
  /\ OnZ257({"from_u8"})
  /\ fcall.self = 5
  /\ fcall.ret = 0
  /\ Z257_new(5) = 5


\* C22: increment_power_assign is increment_power done in place: after
\* P.increment_power_assign(), coefficient 0 is the negation of the old
\* coefficient 63 and coefficient i is the old coefficient i - 1, 1 <= i < 64.
C22_InPlaceIncrementPower ==
  OnPolynomial({"increment_power_assign"}) =>
    /\ p = Polynomial_increment_power(pcall.self)
    /\ p[0] = Z257_cn_neg(pcall.self[N - 1])
    /\ \A i \in 1..(N - 1) : p[i] = pcall.self[i - 1]

C22_Witness ==
  /\ OnPolynomial({"increment_power_assign"})
  /\ pcall.self = Polynomial_ONE
  /\ p[0] = 0
  /\ \A i \in 1..(N - 1) : p[i] = 1


\* fourier_coefficients() of the multiplier polynomials of each table
TransformsOfMultipliers ==
  Array([k \in 1..MaxKey |->
    Array([i \in 0..(M - 1) |-> Polynomial_fourier_coefficients(MultiplierPolynomials[k][i])])])

\* best_fft of the multiplier polynomials twisted by the powers of omega_128
TransformsOfTwistedMultipliers ==
  Array([k \in 1..MaxKey |->
    Array([i \in 0..(M - 1) |->
      best_fft(Polynomial_hadamard_product(MultiplierPolynomials[k][i], OMEGA_ORDER_128_POWERS),
               OMEGA_ORDER_64, LOG2_N)])])

\* C23: for 0 <= i < 16, MULTIPLIER_FOURIER_COEFFICIENTS[i], evaluated at
\* compile time from the twisted multiplier at the 64 powers of omega_64, is
\* MULTIPLIER_POLYNOMIALS[i].fourier_coefficients(): the transform best_fft
\* computes of the multiplier twisted by the powers of omega_128.
C23_PrecomputedTransforms ==
  under_test = "SwifftInput" =>
    \A i \in 0..(M - 1) :
      /\ MULTIPLIER_FOURIER_COEFFICIENTS[i] = TransformsOfMultipliers[key][i]
      /\ MULTIPLIER_FOURIER_COEFFICIENTS[i] = TransformsOfTwistedMultipliers[key][i]

C23_Witness ==
  /\ OnHash({"swifft_hash"})
  /\ key = MaxKey
  /\ \A i \in 0..(M - 1) :
       /\ MULTIPLIER_FOURIER_COEFFICIENTS[i] # MULTIPLIER_POLYNOMIALS[i]
       /\ MULTIPLIER_FOURIER_COEFFICIENTS[i] # Polynomial_ZERO


C25_TransformIsEvaluationAtOddPowers ==
  /\ OnPolynomial({"fourier_coefficients"}) =>
       \A k \in Index :
         pcall.ret[k] = Polynomial_evaluate_point(pcall.self, ModExp(9, 2 * k + 1))
  /\ OnPolynomial({"naive_mul"}) =>
       /\ pcall.kind = "ok"
       /\ Polynomial_fourier_coefficients(pcall.ret)
            = Polynomial_hadamard_product(Polynomial_fourier_coefficients(pcall.self),
                                          Polynomial_fourier_coefficients(pcall.rhs))

C25_Witness ==
  /\ OnPolynomial({"naive_mul"})
  /\ pcall.self \in Generated
  /\ pcall.rhs \in Generated
  /\ pcall.self # pcall.rhs
  /\ Polynomial_fourier_coefficients(pcall.ret)[N - 1]
       = Polynomial_evaluate_point(pcall.ret, ModExp(9, 2 * N - 1))
  /\ \E k \in Index : Polynomial_fourier_coefficients(pcall.ret)[k] # 0


(***************************************************************************)
(* Properties of the libswifft reference implementation.                   *)
(***************************************************************************)
OnLibswifft(ops) == under_test = "libswifft_reference" /\ ref_call.op \in ops

\* the sum of the products A_i * X_i of the ring, term by term
SumOfProducts(A, X) ==
  ForRange(LAMBDA acc, i : libswifft_add(acc, libswifft_mul(A[i], X[i])),
           libswifft_ZERO, 0, M)

\* C26: the reference swifft_hash returns the sum over i of
\* MULTIPLIER_POLYNOMIALS[i] * input[i], with coefficients in [0, 257);
\* equivalently, after `p += q` on the reference Polynomial, p holds the
\* coefficient-wise sum of the old p and q modulo 257.
C26_ReferenceHashIsSumOfProducts ==
  /\ OnLibswifft({"swifft_hash"}) =>
       /\ ref_call.ret = SumOfProducts(libswifft_MULTIPLIER_POLYNOMIALS, ref_call.rhs)
       /\ \A i \in Index : ref_call.ret[i] \in 0..(P - 1)
  /\ OnLibswifft({"add_assign"}) =>
       \A i \in Index : ref_p[i] = (ref_call.self[i] + ref_call.rhs[i]) % P

C26_Witness ==
  /\ OnLibswifft({"swifft_hash"})
  /\ ref_call.ret = libswifft_ZERO
  /\ SumOfProducts(libswifft_MULTIPLIER_POLYNOMIALS, ref_call.rhs) # libswifft_ZERO

\* C28: for canonical P and point in [0, 257), the reference evaluate_point
\* returns the sum over i of P[i] * point^i modulo 257, and no u16
\* intermediate (a product point_powers[i] * self[i], the running sum)
\* exceeds 65535.
C28_ReferenceEvaluatePoint ==
  OnLibswifft({"evaluate_point"}) =>
    /\ ref_call.kind = "ok"
    /\ ref_call.ret
         = ForRange(LAMBDA acc, i : (acc + ref_call.self[i] * ModExp(ref_call.rhs, i)) % P,
                    0, 0, N)
    /\ ~libswifft_evaluate_point_loop(ref_call.self, ref_call.rhs).overflow

C28_Witness ==
  /\ OnLibswifft({"evaluate_point"})
  /\ ref_call.self = libswifft_new([i \in Index |-> P - 1])
  /\ ref_call.rhs = P - 1
  /\ ref_call.kind = "panic"

\* the coefficient-wise sum modulo 257 of the items, ZERO for none
SumOfItems(items) ==
  ForRange(LAMBDA acc, i : libswifft_add(acc, items[i]),
           libswifft_ZERO, 0, Cardinality(DOMAIN items))

\* C29: summing a finite iterator of reference Polynomials through the Sum
\* implementation terminates and returns the coefficient-wise sum modulo 257
\* of the items, ZERO for the empty iterator: a call of sum that has ended
\* has returned that sum.
C29_SumReturnsTheSum ==
  (OnLibswifft({"sum"}) /\ ref_call.kind # "running") =>
    /\ ref_call.kind = "ok"
    /\ ref_call.ret = SumOfItems(ref_call.self)

C29_Witness ==
  /\ OnLibswifft({"sum"})
  /\ ref_call.self = <<>>
  /\ ref_call.kind = "stack_overflow"
  /\ ref_frames = MaxFrames


(***************************************************************************)
(* Properties of the libswifft-sys reference Polynomial.                   *)
(***************************************************************************)
OnSysPolynomial(ops) ==
  under_test = "libswifft_sys_reference_polynomial" /\ ref_call.op \in ops

\* coefficient k of the product in the ring: the sum over i + j = k of
\* a[i] * b[j] minus the sum over i + j = k + 64 of a[i] * b[j], modulo 257
NegacyclicConvolution(a, c) ==
  [k \in Index |->
     ForRange(LAMBDA acc, i :
                IF i <= k THEN (acc + a[i] * c[k - i]) % P
                ELSE (acc + P * P - a[i] * c[k + N - i]) % P,
              0, 0, N)]

\* C27: the product of two libswifft-sys reference Polynomials is their
\* product in R, result[k] = sum over i + j = k of P[i] * Q[j] minus the sum
\* over i + j = k + 64 of P[i] * Q[j] modulo 257, and it is computed without
\* a u16 intermediate overflowing.
C27_SysReferenceProduct ==
  OnSysPolynomial({"mul"}) =>
    LET product == sysref_mul_product(ref_call.self, ref_call.rhs)
        result == sysref_mul_result(ref_call.self, ref_call.rhs)
        expected == Array(NegacyclicConvolution(ref_call.self, ref_call.rhs))
    IN  /\ ref_call.kind = "ok"
        /\ ref_call.ret = expected
        /\ \A k \in 0..(2 * N - 2) : ~product[k].overflow
        /\ \A k \in Index : ~result[k].overflow

C27_Witness ==
  /\ OnSysPolynomial({"mul"})
  /\ ref_call.self = sysref_new([i \in Index |-> IF i = N - 1 THEN P - 1 ELSE 0])
  /\ ref_call.rhs = sysref_new([i \in Index |-> IF i = 1 THEN 1 ELSE 0])
  /\ ref_call.kind = "ok"
  /\ ref_call.ret = sysref_new([i \in Index |-> 0])
  /\ NegacyclicConvolution(ref_call.self, ref_call.rhs)[0] = 1


(***************************************************************************)
(* Properties of recursive_butterfly_arithmetic.                           *)
(***************************************************************************)
\* the slice after 0, 1, ..., 6 of the iterative butterfly stages of best_fft
IterativeStages(a, omega) ==
  LET twiddles == precompute_twiddles(omega, N)
  IN  ForRange(LAMBDA st, k :
                 [st EXCEPT ![k] = butterfly_stage(st[k - 1], N, 2 ^ k, N \div (2 ^ k),
                                                   twiddles)],
               Array([k \in 0..LOG2_N |-> a]), 1, LOG2_N + 1)

\* the number of stages the calls that have returned have applied to a[i]
StagesApplied(i) ==
  LET returned == {k \in 1..LOG2_N : <<(i \div (2 ^ k)) * (2 ^ k), 2 ^ k>> \in fft_done}
  IN  IF returned = {} THEN 0 ELSE CHOOSE k \in returned : \A l \in returned : l <= k

\* C30: recursive_butterfly_arithmetic(a, 64, 1, twiddles) on a bit-reversed
\* input produces the 64 values of the 6 iterative butterfly stages of
\* best_fft with the same twiddles, under every interleaving of the tasks of
\* rayon::join: a call combines only after both its halves have returned,
\* and at every moment every element holds what the iterative stages give
\* it after as many stages as the calls that have returned cover, so no task
\* has written into a slice that is not its own.
C30_RecursiveIsIterative ==
  under_test = "recursive_butterfly_arithmetic" =>
    LET stages == IterativeStages(fft_call.self, fft_call.rhs)
    IN  /\ \A call \in fft_done \cap JoiningCalls :
             join_returned(fft_done, call[1], call[2])
        /\ \A i \in Index : fft_a[i] = stages[StagesApplied(i)][i]
        /\ (fft_call.kind = "ok") <=> (<<0, N>> \in fft_done)
        /\ fft_call.kind = "ok" =>
             /\ fft_a = stages[LOG2_N]
             /\ fft_a = best_fft(bitreverse_permute(fft_call.self, N, LOG2_N),
                                 fft_call.rhs, LOG2_N)

C30_Witness ==
  /\ under_test = "recursive_butterfly_arithmetic"
  /\ fft_call.kind = "ok"
  /\ fft_call.self \in {bitreverse_permute(x, N, LOG2_N) : x \in Generated}
  /\ fft_a # fft_call.self
  /\ fft_a = best_fft(bitreverse_permute(fft_call.self, N, LOG2_N), fft_call.rhs, LOG2_N)

====
